---- MODULE Spec2Model ----
(***************************************************************************)
(* Model of keboola/component-meta: the response flattener                 *)
(* (src/src/output_parser.py, OutputParser) and the query dispatcher       *)
(* (src/src/client.py, FacebookClient).                                    *)
(*                                                                         *)
(* JSON values are tagged records:                                         *)
(*   None            [t |-> "null"]                                        *)
(*   a scalar        [t |-> "str", s |-> "..."]  (numbers are written as   *)
(*                   their digits: the flattener never computes on them)   *)
(*   a dict          [t |-> "dict", d |-> <<[k |-> key, v |-> value], ..>>]*)
(*                   (a sequence: Python dicts iterate in insertion order) *)
(*   a list          [t |-> "list", l |-> <<value, ...>>]                  *)
(* Python strings are TLA+ strings; Len, SubSeq and \o act on characters.  *)
(***************************************************************************)
EXTENDS Integers, Sequences, FiniteSets, TLC

VARIABLES names, parser, client, loader

vars == <<names, parser, client, loader>>

(***************************************************************************)
(* Python primitives                                                       *)
(***************************************************************************)

RECURSIVE FoldLeft(_, _, _)
\* for x in s: acc = Op(acc, x). Each step is evaluated before the next one
\* starts (the test next = next makes TLC compute it there), as a loop does.
FoldLeft(Op(_, _), acc, s) ==
    IF s = <<>> THEN acc
    ELSE LET next == Op(acc, Head(s))
         IN  IF next = next THEN FoldLeft(Op, next, Tail(s)) ELSE acc

\* s.endswith(suffix)
EndsWith(s, suffix) ==
    /\ Len(s) >= Len(suffix)
    /\ SubSeq(s, Len(s) - Len(suffix) + 1, Len(s)) = suffix

\* s.startswith(prefix)
StartsWith(s, prefix) ==
    /\ Len(s) >= Len(prefix)
    /\ SubSeq(s, 1, Len(prefix)) = prefix

\* sub in s
Contains(s, sub) ==
    \/ sub = ""
    \/ \E i \in 1..(Len(s) - Len(sub) + 1) : SubSeq(s, i, i + Len(sub) - 1) = sub

\* s.split(".")[-1]
LastDotSegment(s) ==
    LET dots == {i \in 1..Len(s) : SubSeq(s, i, i) = "."}
        last == IF dots = {} THEN 0 ELSE CHOOSE i \in dots : \A j \in dots : j <= i
    IN  SubSeq(s, last + 1, Len(s))

Null == [t |-> "null"]

Str(s) == [t |-> "str", s |-> s]

Dict(d) == [t |-> "dict", d |-> d]

List(l) == [t |-> "list", l |-> l]

\* one item of a dict
KV(k, v) == [k |-> k, v |-> v]

IsDict(v) == v.t = "dict"

IsList(v) == v.t = "list"

\* Python truthiness of a JSON value: None, "", {} and [] are falsy
Truthy(v) ==
    CASE v.t = "null" -> FALSE
      [] v.t = "str"  -> v.s # ""
      [] v.t = "dict" -> v.d # <<>>
      [] v.t = "list" -> v.l # <<>>

\* key in d
Has(d, key) == \E i \in DOMAIN d : d[i].k = key

\* d.get(key, default)
Get(d, key, default) ==
    IF Has(d, key) THEN d[CHOOSE i \in DOMAIN d : d[i].k = key].v ELSE default

\* d[key] = value: an existing key keeps its place, a new one goes last
Put(d, key, value) ==
    IF Has(d, key)
    THEN [i \in DOMAIN d |-> IF d[i].k = key THEN KV(key, value) ELSE d[i]]
    ELSE Append(d, KV(key, value))

\* d.update(e), {**d, **e}
Update(d, e) == FoldLeft(LAMBDA a, item : Put(a, item.k, item.v), d, e)

(***************************************************************************)
(* Query configuration (configuration.py): QueryRow(name, type, query),    *)
(* QueryConfig(path, fields, ids, parameters). An unset string is "".      *)
(***************************************************************************)

QueryConfig(path, fields, ids, parameters) ==
    [path |-> path, fields |-> fields, ids |-> ids, parameters |-> parameters]

QueryRow(name, type, query) == [name |-> name, type |-> type, query |-> query]

(***************************************************************************)
(* OutputParser._get_table_name                                            *)
(***************************************************************************)

\* the override branch without its containment test: the suffix is always appended
_get_table_name_always_appends(self, table_name) ==
    LET row_name == self.row_config.name
        is_async == self.row_config.type = "async-insights-query"
        is_insights_query == StartsWith(self.row_config.query.fields, "insights")
    IN  IF table_name = ""
        THEN IF is_async \/ is_insights_query
             THEN row_name \o "_insights"
             ELSE row_name
        ELSE row_name \o "_" \o table_name

\* the "_insights" suffix forgotten
_get_table_name_no_insights(self, table_name) ==
    LET row_name == self.row_config.name
    IN  IF table_name = ""
        THEN row_name
        ELSE IF ~Contains(row_name, table_name) /\ ~EndsWith(row_name, "_" \o table_name)
             THEN row_name \o "_" \o table_name
             ELSE row_name

_get_table_name(self, table_name) ==
    LET row_name == self.row_config.name
        is_async == self.row_config.type = "async-insights-query"
        is_insights_query == StartsWith(self.row_config.query.fields, "insights")
    IN  IF table_name = ""
        THEN IF (is_async \/ is_insights_query) /\ ~EndsWith(row_name, "_insights")
             THEN row_name \o "_insights"
             ELSE row_name
        ELSE IF ~Contains(row_name, table_name) /\ ~EndsWith(row_name, "_" \o table_name)
             THEN row_name \o "_" \o table_name
             ELSE row_name

(***************************************************************************)
(* OutputParser (output_parser.py). self is the parser object:             *)
(* [page_loader, page_id, row_config]; page_loader is the pagination       *)
(* collaborator, a function from a next URL to the response it serves.     *)
(* A result is a dict from table name to the sequence of its rows, a row   *)
(* is a dict from column to JSON value. st = [result, fetched, cut,        *)
(* raised] carries the result with the URLs asked of the collaborator so   *)
(* far; cut is set when a traversal asks for more than MaxFetch pages,     *)
(* raised when the collaborator raised, which ends the call.               *)
(***************************************************************************)

MaxFetch == 4

ADS_ACTION_STATS_ROW ==
    {"actions", "properties", "conversion_values", "action_values",
     "canvas_component_avg_pct_view", "cost_per_10_sec_video_view",
     "cost_per_action_type", "cost_per_unique_action_type", "unique_actions",
     "video_10_sec_watched_actions", "video_15_sec_watched_actions",
     "video_30_sec_watched_actions", "video_avg_pct_watched_actions",
     "video_avg_percent_watched_actions", "video_avg_sec_watched_actions",
     "video_avg_time_watched_actions", "video_complete_watched_actions",
     "video_p100_watched_actions", "video_p25_watched_actions",
     "video_p50_watched_actions", "video_p75_watched_actions",
     "cost_per_conversion", "cost_per_outbound_click", "video_p95_watched_actions",
     "website_ctr", "website_purchase_roas", "purchase_roas", "outbound_clicks",
     "conversions", "video_play_actions", "video_thruplay_watched_actions"}

SERIALIZED_LISTS_TYPES == {"issues_info", "frequency_control_specs"}

RECURSIVE JoinWith(_, _)
\* sep.join(parts)
JoinWith(sep, parts) ==
    IF parts = <<>> THEN ""
    ELSE IF Len(parts) = 1 THEN parts[1]
    ELSE parts[1] \o sep \o JoinWith(sep, Tail(parts))

RECURSIVE json_dumps(_)
\* json.dumps(value)
json_dumps(value) ==
    CASE value.t = "null" -> "null"
      [] value.t = "str"  -> "\"" \o value.s \o "\""
      [] value.t = "list" ->
            "[" \o JoinWith(", ", [i \in DOMAIN value.l |-> json_dumps(value.l[i])]) \o "]"
      [] value.t = "dict" ->
            "{" \o JoinWith(", ", [i \in DOMAIN value.d |->
                     "\"" \o value.d[i].k \o "\": " \o json_dumps(value.d[i].v)]) \o "}"

RECURSIVE _flatten_array(_, _)
_flatten_array(parent_key, values) ==
    IF IsDict(values)
    THEN FoldLeft(LAMBDA result, item :
                      Update(result, _flatten_array(parent_key \o "_" \o item.k, item.v)),
                  <<>>, values.d)
    ELSE IF IsList(values)
    THEN FoldLeft(LAMBDA result, i :
                      Update(result,
                             _flatten_array(parent_key \o "_" \o ToString(i - 1), values.l[i])),
                  <<>>, [i \in DOMAIN values.l |-> i])
    ELSE <<KV(parent_key, values)>>

_process_single_field(key, value) ==
    IF key \in SERIALIZED_LISTS_TYPES
    THEN <<KV(key, Str(json_dumps(value)))>>
    ELSE IF key \in ADS_ACTION_STATS_ROW /\ IsList(value)
    THEN <<>>
    ELSE IF IsDict(value) \/ IsList(value)
    THEN _flatten_array(key, value)
    ELSE <<KV(key, value)>>

\* {"data": [value["summary"]]}
FakeNested(value) == Dict(<<KV("data", List(<<Get(value.d, "summary", Null)>>))>>)

_process_fields(row) ==
    FoldLeft(
        LAMBDA processed, item :
            IF item.k = "values"
            THEN [processed EXCEPT !.values = item.v]
            ELSE IF IsDict(item.v) /\ Has(item.v.d, "data")
            THEN LET nested == Put(processed.nested_tables, item.k, item.v)
                 IN  [processed EXCEPT !.nested_tables =
                        IF Has(item.v.d, "summary")
                        THEN Put(nested, "summary", FakeNested(item.v))
                        ELSE nested]
            ELSE IF IsDict(item.v) /\ Has(item.v.d, "summary")
            THEN [processed EXCEPT !.nested_tables =
                    Put(processed.nested_tables, "summary", FakeNested(item.v))]
            ELSE IF item.k \in ADS_ACTION_STATS_ROW /\ IsList(item.v)
            THEN [processed EXCEPT !.action_stats = Put(processed.action_stats, item.k, item.v)]
            ELSE [processed EXCEPT !.regular_fields =
                    Update(processed.regular_fields, _process_single_field(item.k, item.v))],
        [regular_fields |-> <<>>, nested_tables |-> <<>>, action_stats |-> <<>>,
         values |-> Null],
        row.d)

_create_base_row(self, fb_graph_node, parent_id) ==
    <<KV("ex_account_id", Str(self.page_id)),
      KV("fb_graph_node", Str(fb_graph_node)),
      KV("parent_id", parent_id)>>

BasicIdentifiers == {"id", "parent_id", "ex_account_id", "fb_graph_node"}

\* the filter switched off: every row counts as meaningful
_has_meaningful_data_always(row_data) == TRUE

_has_meaningful_data(row_data) ==
    \E i \in DOMAIN row_data :
        /\ row_data[i].k \notin BasicIdentifiers
        /\ row_data[i].v # Null
        /\ row_data[i].v # Str("")

_add_row(result, table_name, row_data) ==
    IF ~_has_meaningful_data(row_data)
    THEN result
    ELSE Put(result, table_name, Append(Get(result, table_name, <<>>), row_data))

_has_meaningful_value(value_data) ==
    /\ Has(value_data.d, "value")
    /\ Get(value_data.d, "value", Null) # Null
    /\ Get(value_data.d, "value", Null) # Str("")

_create_value_row(self, base_row, value_data) ==
    LET row == Update(base_row, <<KV("key1", Str("")), KV("key2", Str("")),
                                  KV("value", Get(value_data.d, "value", Null))>>)
    IN  IF Contains(self.row_config.query.fields, "insights")
        THEN Put(row, "end_time", Get(value_data.d, "end_time", Null))
        ELSE IF Has(value_data.d, "end_time")
        THEN Put(row, "end_time", Get(value_data.d, "end_time", Null))
        ELSE row

_add_value_rows(self, result, table_name, full_row_data, values) ==
    FoldLeft(LAMBDA res, value_data :
                 IF ~_has_meaningful_value(value_data)
                 THEN res
                 ELSE _add_row(res, table_name,
                               _create_value_row(self, full_row_data, value_data)),
             result, values.l)

\* action_type.split(".")[-1], post_save renamed
NormalizedActionType(raw_action_type) ==
    LET action_type == LastDotSegment(raw_action_type)
    IN  IF action_type = "post_save" THEN "post_reaction" ELSE action_type

\* for key, value in action.items(): if key not in skip: action_row[key] = value
CopyActionFields(action_row, action, skip) ==
    FoldLeft(LAMBDA row, item : IF item.k \in skip THEN row ELSE Put(row, item.k, item.v),
             action_row, action.d)

_add_action_stats_to_main_table(result, table_name, base_row, action_stats) ==
    FoldLeft(
        LAMBDA res1, stats :
            IF ~IsList(stats.v) THEN res1
            ELSE FoldLeft(
                    LAMBDA res2, action :
                        IF ~IsDict(action) THEN res2
                        ELSE LET action_row ==
                                   Update(base_row,
                                          <<KV("ads_action_name", Str(stats.k)),
                                            KV("action_type",
                                               Str(NormalizedActionType(
                                                   Get(action.d, "action_type", Str("")).s))),
                                            KV("value", Get(action.d, "value", Str("")))>>)
                             IN  _add_row(res2, table_name,
                                          CopyActionFields(action_row, action,
                                                           {"action_type", "value"})),
                    res1, stats.v.l),
        result, action_stats)

_copy_common_fields(base_row, original_row, extended) ==
    LET fields == <<"account_id", "ad_id", "adset_id", "campaign_id", "date_start",
                    "date_stop", "publisher_platform">>
                  \o (IF extended THEN <<"account_name", "campaign_name">> ELSE <<>>)
    IN  FoldLeft(LAMBDA row, f :
                     IF Has(original_row.d, f)
                     THEN Put(row, f, Get(original_row.d, f, Null))
                     ELSE row,
                 base_row, fields)

_populate_action_row(self, action_row, action, stats_field_name, original_row, is_action_breakdown) ==
    LET raw == Get(action.d, "action_type", Str(""))
        action_type == IF raw = Str("post_save") THEN Str("post_reaction") ELSE raw
        row1 == Update(action_row, <<KV("ads_action_name", Str(stats_field_name)),
                                     KV("action_type", action_type),
                                     KV("value", Get(action.d, "value", Str("")))>>)
        row2 == IF /\ is_action_breakdown
                   /\ Contains(self.row_config.query.parameters,
                               "action_breakdowns=action_reaction")
                THEN Put(row1, "action_reaction",
                         Get(action.d, "action_reaction",
                             Get(original_row.d, "action_reaction", Str(""))))
                ELSE row1
    IN  CopyActionFields(row2, action, {"action_type", "value", "action_reaction"})

_get_action_stats_table_name(self, stats_field_name) ==
    IF EndsWith(self.row_config.name, "_" \o stats_field_name)
    THEN self.row_config.name \o "_insights"
    ELSE self.row_config.name \o "_" \o stats_field_name \o "_insights"

\* "action_breakdowns=action_reaction" or "action_breakdowns=action_type" in parameters
IsActionBreakdown(self) ==
    \/ Contains(self.row_config.query.parameters, "action_breakdowns=action_reaction")
    \/ Contains(self.row_config.query.parameters, "action_breakdowns=action_type")

_process_action_stats(self, action_stats, original_row, fb_graph_node, result) ==
    LET is_action_breakdown == IsActionBreakdown(self)
    IN  FoldLeft(
            LAMBDA res1, stats :
                IF ~IsList(stats.v) THEN res1
                ELSE LET table_name ==
                             IF is_action_breakdown
                             THEN _get_table_name(self, "")
                             ELSE _get_action_stats_table_name(self, stats.k)
                         base_row ==
                             _copy_common_fields(
                                 _create_base_row(self, fb_graph_node, Str(self.page_id)),
                                 original_row, is_action_breakdown)
                     IN  FoldLeft(
                             LAMBDA res2, action :
                                 IF ~IsDict(action) THEN res2
                                 ELSE _add_row(res2, table_name,
                                               _populate_action_row(self, base_row, action,
                                                                    stats.k, original_row,
                                                                    is_action_breakdown)),
                             res1, stats.v.l),
            result, action_stats)

\* response.get("insights", response).get("data"), else the object itself when it has an id
_extract_rows(response) ==
    LET data == Get(Get(response.d, "insights", response).d, "data", Null)
    IN  IF ~Truthy(data) /\ IsDict(response) /\ Has(response.d, "id")
        THEN <<response>>
        ELSE IF Truthy(data) THEN data.l ELSE <<>>

\* the nested rows assigned instead of appended: earlier rows of the table are lost
MergeNested_overwrites(result, nested_result) ==
    FoldLeft(LAMBDA res, tbl : Put(res, tbl.k, tbl.v), result, nested_result)

\* result[nested_table].extend(nested_rows) for every table of nested_result
MergeNested(result, nested_result) ==
    FoldLeft(LAMBDA res, tbl : Put(res, tbl.k, Get(res, tbl.k, <<>>) \o tbl.v),
             result, nested_result)

RECURSIVE parse_data(_, _, _, _, _, _)
RECURSIVE _iter_paginated_responses(_, _, _, _, _, _, _)
RECURSIVE _process_row(_, _, _, _, _, _)
RECURSIVE _process_nested_data(_, _, _, _, _)
RECURSIVE NextPage(_, _, _, _, _, _, _, _)

_process_nested_data(self, nested_tables, original_row, fb_graph_node, st) ==
    FoldLeft(
        LAMBDA acc, tbl :
            LET nested_graph_node == fb_graph_node \o "_" \o tbl.k
                nested_row_id == Get(original_row.d, "id", Null)
                nested == parse_data(self, tbl.v, nested_graph_node, nested_row_id, tbl.k,
                                     [fetched |-> acc.fetched, cut |-> acc.cut,
                                      raised |-> acc.raised])
            IN  IF acc.raised THEN acc
                ELSE [result |-> MergeNested(acc.result, nested.result),
                      fetched |-> nested.fetched,
                      cut |-> nested.cut,
                      raised |-> nested.raised],
        st, nested_tables)

\* the main row or the value rows are written whatever the query and the
\* action statistics are
MainRows_unconditional(self, table_name, full_row_data, processed_data, result) ==
    IF Truthy(processed_data.values)
    THEN _add_value_rows(self, result, table_name, full_row_data, processed_data.values)
    ELSE _add_row(result, table_name, full_row_data)

\* the main row of a source row, its value rows or its action rows
\* (output_parser.py 123-137)
MainRows(self, table_name, full_row_data, processed_data, result) ==
    IF ~IsActionBreakdown(self) \/ processed_data.action_stats = <<>>
    THEN IF ~IsActionBreakdown(self) /\ processed_data.action_stats # <<>>
         THEN _add_action_stats_to_main_table(result, table_name, full_row_data,
                                              processed_data.action_stats)
         ELSE IF Truthy(processed_data.values)
         THEN _add_value_rows(self, result, table_name, full_row_data, processed_data.values)
         ELSE _add_row(result, table_name, full_row_data)
    ELSE result

\* the action tables of an action-breakdown query (output_parser.py 139-141)
ActionTables(self, action_stats, row, fb_graph_node, result) ==
    IF IsActionBreakdown(self)
    THEN _process_action_stats(self, action_stats, row, fb_graph_node, result)
    ELSE result

\* a row whose fields have been sorted into processed_data
ProcessedRow(self, row, fb_graph_node, base_row, table_name, processed_data, st) ==
    _process_nested_data(
        self, processed_data.nested_tables, row, fb_graph_node,
        [st EXCEPT !.result =
            ActionTables(self, processed_data.action_stats, row, fb_graph_node,
                         MainRows(self, table_name,
                                  Update(base_row, processed_data.regular_fields),
                                  processed_data, st.result))])

\* table_name "" stands for None; an exception raised for an earlier row has
\* ended the call
_process_row(self, row, fb_graph_node, parent_id, table_name, st) ==
    IF st.raised THEN st
    ELSE ProcessedRow(self, row, fb_graph_node,
                      _create_base_row(self, fb_graph_node, parent_id),
                      _get_table_name(self, IF table_name # "" THEN table_name
                                            ELSE self.row_config.query.path),
                      _process_fields(row), st)

\* an exception of class kind with text e, in the place of the value a call returns
Exception(kind, e) == [t |-> "raise", kind |-> kind, e |-> e]

IsRaise(v) == v.t = "raise"

\* an HTTPError raised by the HTTP client: its text and its response (None, or
\* the body as text and as response.json() returns it, None when that raises)
HTTPError(message, response) ==
    [t |-> "raise", kind |-> "HTTPError", e |-> message, response |-> response]

ErrorResponse(json, text) == [json |-> json, text |-> text]

\* the collaborator before parse_data has called it
NoCalls == [fetched |-> <<>>, cut |-> FALSE, raised |-> FALSE]

\* the result of an earlier call kept as the accumulator of the next one
result_shared_between_calls == parser.out.result

\* result = {}
NewResult == <<>>

\* paging.next is never followed: only the first page is read
_iter_paginated_responses_first_page(self, current, current_url, fb_node, parent_id, table_name, st) ==
    IF ~(IsDict(current) /\ Truthy(current)) THEN st
    ELSE FoldLeft(LAMBDA acc, row :
                      _process_row(self, row, fb_node, parent_id, table_name, acc),
                  st, _extract_rows(current))

\* the generator resumed after the rows of current were processed into st1
\* (output_parser.py 80-86): the next page is loaded unless there is none, its
\* URL is the one current was loaded from, or loading raises
NextPage(self, current, current_url, fb_node, parent_id, table_name, next_url, st1) ==
    IF st1.raised \/ ~Truthy(next_url) \/ next_url = current_url THEN st1
    ELSE IF Len(st1.fetched) >= MaxFetch THEN [st1 EXCEPT !.cut = TRUE]
    ELSE IF IsRaise(self.page_loader[next_url.s])
    THEN [st1 EXCEPT !.fetched = Append(@, next_url.s), !.raised = TRUE]
    ELSE _iter_paginated_responses(self, self.page_loader[next_url.s], next_url, fb_node,
                                   parent_id, table_name,
                                   [st1 EXCEPT !.fetched = Append(@, next_url.s)])

\* (current.get("paging") or {}).get("next")
PagingNext(current) ==
    IF Truthy(Get(current.d, "paging", Null))
    THEN Get(Get(current.d, "paging", Null).d, "next", Null)
    ELSE Null

\* the generator together with the loop of parse_data that consumes it: the
\* rows of a page are processed before the next page is asked for, and a page
\* without rows ends the traversal
_iter_paginated_responses(self, current, current_url, fb_node, parent_id, table_name, st) ==
    IF ~(IsDict(current) /\ Truthy(current)) THEN st
    ELSE IF _extract_rows(current) = <<>> THEN st
    ELSE NextPage(self, current, current_url, fb_node, parent_id, table_name,
                  PagingNext(current),
                  FoldLeft(LAMBDA acc, row :
                               _process_row(self, row, fb_node, parent_id, table_name, acc),
                           st, _extract_rows(current)))

parse_data(self, response, fb_node, parent_id, table_name, io) ==
    _iter_paginated_responses(
        self, IF Truthy(response) THEN response ELSE Dict(<<>>), Null, fb_node, parent_id,
        table_name,
        [result |-> NewResult, fetched |-> io.fetched, cut |-> io.cut, raised |-> io.raised])

(***************************************************************************)
(* FacebookClient helpers that choose the arguments of parse_data          *)
(***************************************************************************)

_request_require_page_token(row_config) ==
    IF row_config.type = "async-insights-query" THEN FALSE
    ELSE LET check_path == row_config.query.path \in
                               {"insights", "feed", "posts", "ratings", "likes", "stories"}
             fields == row_config.query.fields
         IN  \/ check_path
             \/ Contains(fields, "insights")
             \/ Contains(fields, "likes")
             \/ Contains(fields, "from")
             \/ Contains(fields, "username")

_get_fb_graph_node(is_page_token, row_config) ==
    LET base_node == "page"
        fields == row_config.query.fields
    IN  IF row_config.type = "async-insights-query" THEN base_node \o "_insights"
        ELSE IF is_page_token /\ row_config.query.path = ""
        THEN IF Contains(fields, "insights") THEN base_node \o "_insights" ELSE base_node
        ELSE IF row_config.query.path = "" THEN base_node
        ELSE base_node \o "_" \o row_config.query.path

(***************************************************************************)
(* Responses the parser is run on (shapes of tests/fixtures)               *)
(***************************************************************************)

MaxRows == 2

NumPages == 2

\* {"data": rows, "paging": {"next": next}}; next "" is the last page
Response(rows, next) ==
    Dict(<<KV("data", List(rows)),
           KV("paging", IF next = "" THEN Dict(<<>>) ELSE Dict(<<KV("next", Str(next))>>))>>)

UrlOf(i) == "u" \o ToString(i)

Urls == {UrlOf(i) : i \in 1..NumPages}

PlainRow == Dict(<<KV("id", Str("p1")), KV("message", Str("hello"))>>)

IdOnlyRow == Dict(<<KV("id", Str("p2"))>>)

EmptyFieldsRow == Dict(<<KV("id", Str("p3")), KV("message", Null), KV("caption", Str(""))>>)

\* a page-insights metric (MOCK_PAGE_INSIGHTS_RESPONSE) with entries whose value
\* is present, null, empty and missing
ValuesRow ==
    Dict(<<KV("id", Str("m1")), KV("name", Str("page_fans")),
           KV("values", List(<<
               Dict(<<KV("value", Str("1000")), KV("end_time", Str("t1"))>>),
               Dict(<<KV("value", Null)>>),
               Dict(<<KV("value", Str("")), KV("end_time", Str("t2"))>>),
               Dict(<<KV("end_time", Str("t3"))>>),
               Dict(<<KV("value", Str("7"))>>)>>))>>)

EmptyValuesRow ==
    Dict(<<KV("id", Str("m3")), KV("name", Str("page_views")), KV("values", List(<<>>))>>)

ValuesAndActionsRow ==
    Dict(<<KV("id", Str("m2")), KV("name", Str("page_actions")),
           KV("values", List(<<Dict(<<KV("value", Str("5"))>>)>>)),
           KV("actions", List(<<Dict(<<KV("action_type", Str("like")),
                                       KV("value", Str("2"))>>)>>))>>)

\* an ads-insights row with action statistics
ActionsRow ==
    Dict(<<KV("campaign_id", Str("c1")), KV("date_start", Str("d1")),
           KV("spend", Str("10")),
           KV("actions", List(<<
               Dict(<<KV("action_type", Str("offsite_conversion.fb_pixel_purchase")),
                      KV("value", Str("3"))>>),
               Dict(<<KV("action_type", Str("post_save")), KV("value", Str("1"))>>)>>))>>)

\* an ad whose action statistics came back as an empty list
EmptyActionsRow ==
    Dict(<<KV("id", Str("a1")), KV("name", Str("quiet ad")), KV("actions", List(<<>>))>>)

\* MOCK_FEED_RESPONSE's post, with a second comment: two comments, the first
\* with likes and a sub-comment, and the post's own likes
FeedPost ==
    Dict(<<KV("id", Str("post_123")), KV("message", Str("Test post message")),
           KV("comments", Dict(<<KV("data", List(<<
               Dict(<<KV("id", Str("comment_456")), KV("message", Str("Great post!")),
                      KV("from", Dict(<<KV("id", Str("user_789")),
                                        KV("name", Str("Test User"))>>)),
                      KV("likes", Dict(<<KV("data", List(<<
                          Dict(<<KV("id", Str("user_111")), KV("name", Str("Liker 1"))>>)
                          >>))>>)),
                      KV("comments", Dict(<<KV("data", List(<<
                          Dict(<<KV("id", Str("subcomment_999")),
                                 KV("message", Str("Reply to comment"))>>)
                          >>))>>))>>),
               Dict(<<KV("id", Str("comment_457")), KV("message", Str("Second"))>>)
               >>))>>)),
           KV("likes", Dict(<<KV("data", List(<<
               Dict(<<KV("id", Str("user_333")), KV("name", Str("Post Liker"))>>)
               >>))>>))>>)

\* a post whose comment names its parent comment (field parent{id})
ReplyPost ==
    Dict(<<KV("id", Str("p4")), KV("message", Str("thread")),
           KV("comments", Dict(<<KV("data", List(<<
               Dict(<<KV("id", Str("c9")), KV("message", Str("re")),
                      KV("parent", Dict(<<KV("id", Str("c0"))>>))>>)
               >>))>>))>>)

\* MOCK_FEED_WITH_SUMMARY's shapes: a summary beside data, and a summary alone
SummaryPost ==
    Dict(<<KV("id", Str("p5")), KV("message", Str("counted")),
           KV("likes", Dict(<<KV("data", List(<<>>)),
                              KV("summary", Dict(<<KV("total_count", Str("5"))>>))>>)),
           KV("comments", Dict(<<KV("summary",
                                    Dict(<<KV("total_count", Str("2"))>>))>>))>>)

RowPool ==
    {PlainRow, IdOnlyRow, EmptyFieldsRow, ValuesRow, EmptyValuesRow, ValuesAndActionsRow,
     ActionsRow, EmptyActionsRow, FeedPost, ReplyPost, SummaryPost}

\* the row served on page i of a paginated collection
PageRow(i) == Dict(<<KV("id", Str("r" \o ToString(i))), KV("message", Str("more"))>>)

FeedQuery ==
    QueryRow("feed", "nested-query",
             QueryConfig("feed", "message,likes{name},comments{message,from,likes{name}}",
                         "", ""))

RowConfigs ==
    {FeedQuery,
     QueryRow("posts", "nested-query", QueryConfig("", "insights.metric(x)", "", "")),
     QueryRow("posts", "nested-query", QueryConfig("feed", "insights.metric(x)", "", "")),
     QueryRow("posts_insights", "nested-query", QueryConfig("", "insights.metric(x)", "", "")),
     QueryRow("page", "nested-query", QueryConfig("", "id,name", "", "")),
     QueryRow("page_insights", "nested-query", QueryConfig("insights", "", "", "")),
     QueryRow("ads", "async-insights-query",
              QueryConfig("", "", "", "level=ad&action_breakdowns=action_type")),
     QueryRow("ads", "async-insights-query",
              QueryConfig("campaigns", "", "", "action_breakdowns=action_reaction")),
     QueryRow("ads_insights", "async-insights-query", QueryConfig("insights", "", "", ""))}

\* the sequences over S of length 0..n
SeqsUpTo(S, n) == UNION {[1..k -> S] : k \in 0..n}

PageId == "177057932317550"

\* a parser as the dispatcher builds it (client.py 256-263, 295): the graph node
\* of the query, parent_id = page_id, no table-name override
ParserCall(row_config, page_loader, response) ==
    [pc |-> "call",
     self |-> [page_loader |-> page_loader, page_id |-> PageId, row_config |-> row_config],
     response |-> response,
     fb_node |-> _get_fb_graph_node(_request_require_page_token(row_config), row_config),
     parent_id |-> Str(PageId),
     out |-> [result |-> <<>>, fetched |-> <<>>, cut |-> FALSE, raised |-> FALSE]]

\* every page of the collaborator holds one row and is the last one
LastPages == [u \in Urls |-> Response(<<PageRow(1)>>, "")]

ParserInit ==
    /\ parser \in {ParserCall(c, LastPages, Response(rows, next)) :
                       c \in RowConfigs, rows \in SeqsUpTo(RowPool, MaxRows),
                       next \in {"", UrlOf(1)}}
    /\ names = [pc |-> "off"]
    /\ client = [pc |-> "off"]
    /\ loader = [pc |-> "off"]

\* pages that hold one row or none, linked in every possible way
LinkedPages ==
    {[u \in Urls |-> Response(rows[u], next[u])] :
         rows \in [Urls -> {<<>>, <<PageRow(1)>>, <<PageRow(2), FeedPost>>}],
         next \in [Urls -> Urls \cup {""}]}

PagingInit ==
    /\ parser \in {ParserCall(FeedQuery, pages, Response(rows, next)) :
                       pages \in LinkedPages,
                       rows \in {<<PlainRow>>, <<ReplyPost, PlainRow>>},
                       next \in Urls \cup {""}}
    /\ names = [pc |-> "off"]
    /\ client = [pc |-> "off"]
    /\ loader = [pc |-> "off"]

\* res = output_parser.parse_data(page_data, fb_graph_node, page_id)
ParseData ==
    /\ parser.pc = "call"
    /\ parser' = [parser EXCEPT
                    !.pc = "done",
                    !.out = parse_data(parser.self, parser.response, parser.fb_node,
                                       parser.parent_id, "",
                                       NoCalls)]
    /\ UNCHANGED <<names, client, loader>>

SpecParser == ParserInit /\ [][ParseData]_vars

SpecPaging == PagingInit /\ [][ParseData]_vars

\* the account id of a second parser
OtherPageId == "act_42"

\* two parsers OutputParser(page_loader, page_id, row_config) with the same
\* collaborator and query configuration, called with the same arguments
TwiceInit ==
    /\ parser \in {[pc |-> "call",
                    self |-> [page_loader |-> LastPages, page_id |-> PageId, row_config |-> c],
                    other |-> [page_loader |-> LastPages, page_id |-> id, row_config |-> c],
                    response |-> Response(<<row>>, next),
                    fb_node |-> _get_fb_graph_node(_request_require_page_token(c), c),
                    parent_id |-> Str(PageId),
                    out |-> [result |-> <<>>, fetched |-> <<>>, cut |-> FALSE,
                             raised |-> FALSE],
                    again |-> [result |-> <<>>, fetched |-> <<>>, cut |-> FALSE,
                               raised |-> FALSE]] :
                       c \in RowConfigs, row \in RowPool, next \in {"", UrlOf(1)},
                       id \in {PageId, OtherPageId}}
    /\ names = [pc |-> "off"]
    /\ client = [pc |-> "off"]
    /\ loader = [pc |-> "off"]

\* the second call: other.parse_data(response, fb_node, parent_id)
ParseDataAgain ==
    /\ parser.pc = "done"
    /\ parser' = [parser EXCEPT
                    !.pc = "again",
                    !.again = parse_data(parser.other, parser.response, parser.fb_node,
                                         parser.parent_id, "", NoCalls)]
    /\ UNCHANGED <<names, client, loader>>

TwiceNext == ParseData \/ ParseDataAgain

SpecTwice == TwiceInit /\ [][TwiceNext]_vars

(***************************************************************************)
(* Properties of parse_data                                                *)
(***************************************************************************)

\* the names of the tables of a result
Tables(result) == {result[i].k : i \in DOMAIN result}

\* row[column], None when the row has no such column
Col(row, column) == Get(row, column, Null)

\* every row of every table of a result
AllRows(result) == UNION {{result[i].v[j] : j \in DOMAIN result[i].v} : i \in DOMAIN result}

\* the rows of the first response
SourceRows == Get(parser.response.d, "data", List(<<>>)).l

\* C1: every row of every table parse_data returns has a field outside
\* {id, parent_id, ex_account_id, fb_graph_node} that is neither null nor "".
C1_MeaningfulRows ==
    \A row \in AllRows(parser.out.result) :
        \E i \in DOMAIN row :
            /\ row[i].k \notin {"id", "parent_id", "ex_account_id", "fb_graph_node"}
            /\ row[i].v.t # "null"
            /\ ~(row[i].v.t = "str" /\ row[i].v.s = "")

\* a response with identifier-only rows and a values array was parsed over two
\* pages, nested rows included, and left rows in the result
C1_Witness ==
    /\ parser.pc = "done"
    /\ SourceRows = <<IdOnlyRow, FeedPost>>
    /\ parser.out.fetched = <<UrlOf(1)>>
    /\ Cardinality(AllRows(parser.out.result)) >= 6

\* the same table names and, per table, the same rows in the same order
SameMapping(a, b) ==
    /\ Tables(a) = Tables(b)
    /\ \A t \in Tables(a) : Get(a, t, <<>>) = Get(b, t, <<>>)

NextUrl(response) == Get(Get(response.d, "paging", Dict(<<>>)).d, "next", Null)

RECURSIVE ChainOf(_, _, _)
\* the pages reached from response by following paging.next at most k times
ChainOf(page_loader, response, k) ==
    IF NextUrl(response) = Null \/ k = 0 THEN <<response>>
    ELSE <<response>> \o ChainOf(page_loader, page_loader[NextUrl(response).s], k - 1)

Chain == ChainOf(parser.self.page_loader, parser.response, NumPages + 1)

\* the links from the first response end, and every page on the way has rows
IsFiniteChain ==
    /\ NextUrl(Chain[Len(Chain)]) = Null
    /\ \A i \in DOMAIN Chain : Get(Chain[i].d, "data", List(<<>>)).l # <<>>

\* what parse_data returns for one page of the chain taken alone
SinglePage(page) ==
    parse_data(parser.self, Response(Get(page.d, "data", List(<<>>)).l, ""),
               parser.fb_node, parser.parent_id, "",
               NoCalls).result

\* C4: over a finite chain of n pages with rows, parse_data asks the
\* collaborator for exactly the n-1 next pages, in order, and every table holds
\* the rows of page 1, then of page 2, ..., then of page n.
C4_PaginationMerge ==
    (parser.pc = "done" /\ IsFiniteChain) =>
        /\ Len(parser.out.fetched) = Len(Chain) - 1
        /\ \A i \in 1..(Len(Chain) - 1) : parser.out.fetched[i] = NextUrl(Chain[i]).s
        /\ \A t \in Tables(parser.out.result)
                    \cup UNION {Tables(SinglePage(Chain[i])) : i \in DOMAIN Chain} :
              Get(parser.out.result, t, <<>>)
                  = FoldLeft(LAMBDA rows, page : rows \o Get(SinglePage(page), t, <<>>),
                             <<>>, Chain)

\* a chain of three pages was merged: two fetches, rows of all three in "feed"
C4_Witness ==
    /\ parser.pc = "done"
    /\ IsFiniteChain
    /\ Len(Chain) = 3
    /\ parser.out.fetched = <<NextUrl(Chain[1]).s, NextUrl(Chain[2]).s>>
    /\ Len(Get(parser.out.result, "feed", <<>>)) >= 3

\* C5: when every page the collaborator serves has rows, no next URL is
\* fetched twice in one traversal and the traversal ends, whatever the links.
C5_NoRefetch ==
    (/\ parser.pc = "done"
     /\ \A u \in DOMAIN parser.self.page_loader :
            Get(parser.self.page_loader[u].d, "data", List(<<>>)).l # <<>>)
    => /\ ~parser.out.cut
       /\ \A i, j \in DOMAIN parser.out.fetched :
              parser.out.fetched[i] = parser.out.fetched[j] => i = j

\* name, with "_insights" appended when the query is async-insights or its
\* fields begin with "insights" and the name does not end with it already
InsightsName(row_config) ==
    IF /\ \/ row_config.type = "async-insights-query"
          \/ StartsWith(row_config.query.fields, "insights")
       /\ ~EndsWith(row_config.name, "_insights")
    THEN row_config.name \o "_insights"
    ELSE row_config.name

\* the tables that hold a top-level row (a row at the graph node of the call)
TopLevelTables(only_action_rows) ==
    {parser.out.result[i].k : i \in
        {i \in DOMAIN parser.out.result :
            \E j \in DOMAIN parser.out.result[i].v :
                /\ Col(parser.out.result[i].v[j], "fb_graph_node") = Str(parser.fb_node)
                /\ Has(parser.out.result[i].v[j], "ads_action_name") = only_action_rows}}

RECURSIVE Linkage(_, _, _)
\* for every source row of rows and of their nested collections, at any depth:
\* its id with the id of the row that holds it and its graph node
Linkage(rows, node, parent_id) ==
    UNION {
        {[id |-> Get(rows[i].d, "id", Null), parent_id |-> parent_id, node |-> node]}
        \cup UNION {
            Linkage(Get(rows[i].d[j].v.d, "data", List(<<>>)).l,
                    node \o "_" \o rows[i].d[j].k,
                    Get(rows[i].d, "id", Null)) :
            j \in {j \in DOMAIN rows[i].d :
                       IsDict(rows[i].d[j].v) /\ Has(rows[i].d[j].v.d, "data")}}
        : i \in DOMAIN rows}

\* C8: a row emitted from nested field f of source row r has parent_id = r's id
\* and fb_graph_node = r's node, "_", f; a top-level row has the parent_id
\* passed to parse_data.
C8_ParentChildLinkage ==
    parser.pc = "done" =>
        \A src \in Linkage(SourceRows, parser.fb_node, parser.parent_id) :
            \A row \in AllRows(parser.out.result) :
                (src.id # Null /\ Col(row, "id") = src.id) =>
                    /\ Col(row, "parent_id") = src.parent_id
                    /\ Col(row, "fb_graph_node") = Str(src.node)

\* the feed query was run on the one post with two comments
FeedScenario ==
    /\ parser.pc = "done"
    /\ parser.self.row_config = FeedQuery
    /\ parser.response = Response(<<FeedPost>>, "")

\* the values of column of the rows of table t, in order
ColumnOf(t, column) ==
    [i \in DOMAIN Get(parser.out.result, t, <<>>) |->
        Col(Get(parser.out.result, t, <<>>)[i], column)]

EmittedFor(id) ==
    FoldLeft(LAMBDA rows, tbl : rows \o SelectSeq(tbl.v, LAMBDA row : Col(row, "id") = id),
             <<>>, parser.out.result)

\* the entries of a values list whose value is present, not null and not ""
GoodEntries(values) ==
    SelectSeq(values.l, LAMBDA entry : /\ Has(entry.d, "value")
                                       /\ Get(entry.d, "value", Null) # Null
                                       /\ Get(entry.d, "value", Null) # Str(""))

\* C10: a source row whose values field is a list yields one row per entry
\* with a value, in list order, with the row's own fields, key1 = key2 = ""
\* and the entry's value; the other entries yield nothing.
C10_ValuesExpansion ==
    parser.pc = "done" =>
        \A i \in DOMAIN SourceRows :
            LET src == SourceRows[i].d
                emitted == EmittedFor(Get(src, "id", Null))
                good == GoodEntries(Get(src, "values", Null))
            IN  (/\ Has(src, "values") /\ IsList(Get(src, "values", Null))
                 /\ \A j \in DOMAIN SourceRows : SourceRows[j] = SourceRows[i] => j = i)
                => /\ Len(emitted) = Len(good)
                   /\ \A n \in DOMAIN emitted :
                        /\ Col(emitted[n], "value") = Get(good[n].d, "value", Null)
                        /\ Col(emitted[n], "key1") = Str("")
                        /\ Col(emitted[n], "key2") = Str("")
                        /\ Col(emitted[n], "name") = Get(src, "name", Null)
                        /\ Col(emitted[n], "parent_id") = parser.parent_id
                        /\ Col(emitted[n], "fb_graph_node") = Str(parser.fb_node)
                        /\ Col(emitted[n], "ex_account_id") = Str(parser.self.page_id)

(***************************************************************************)
(* Table naming applied, then applied again to a query named by the result *)
(***************************************************************************)

QueryNames ==
    {"posts", "posts_insights", "feed", "feed_comments", "newsfeed", "ads",
     "comments", "page_insights", "ads_insights_x"}

Overrides == {"", "comments", "likes", "insights", "feed", "summary"}

QueryTypes == {"nested-query", "async-insights-query"}

FieldStrings == {"", "insights.metric(x)", "message,likes", "id,insights"}

NamesInit ==
    /\ names \in [pc : {"start"},
                  row_config : {QueryRow(n, t, QueryConfig("", f, "", "")) :
                                    n \in QueryNames, t \in QueryTypes, f \in FieldStrings},
                  override : Overrides,
                  first : {""},
                  second : {""}]
    /\ parser = [pc |-> "off"]
    /\ client = [pc |-> "off"]
    /\ loader = [pc |-> "off"]

\* T = _get_table_name(o) for the query named N
NameTable ==
    /\ names.pc = "start"
    /\ names' = [names EXCEPT !.pc = "named",
                              !.first = _get_table_name([row_config |-> names.row_config],
                                                        names.override)]
    /\ UNCHANGED <<parser, client, loader>>

\* _get_table_name(o) for a query named T, same type and fields
RenameTable ==
    /\ names.pc = "named"
    /\ names' = [names EXCEPT
                    !.pc = "renamed",
                    !.second = _get_table_name(
                        [row_config |-> [names.row_config EXCEPT !.name = names.first]],
                        names.override)]
    /\ UNCHANGED <<parser, client, loader>>

NamesNext == NameTable \/ RenameTable

SpecNames == NamesInit /\ [][NamesNext]_vars

\* C6: naming a table twice appends nothing the second time; 'posts' with
\* insights fields and no override is 'posts_insights', 'posts_insights' stays,
\* and 'feed' with override 'comments' is 'feed_comments'.
C6_NoDoubleAppend ==
    /\ names.pc = "renamed" => names.second = names.first
    /\ names.pc # "start" =>
          LET N == names.row_config.name
              insights == StartsWith(names.row_config.query.fields, "insights")
          IN  /\ (N = "posts" /\ insights /\ names.override = "")
                    => names.first = "posts_insights"
              /\ (N = "posts_insights" /\ names.override = "")
                    => names.first = "posts_insights"
              /\ (N = "feed" /\ names.override = "comments")
                    => names.first = "feed_comments"

\* a suffix was appended by the first application and the second was made
C6_Witness ==
    /\ names.pc = "renamed"
    /\ names.first = "feed_comments"
    /\ names.row_config.name = "feed"
    /\ names.second = "feed_comments"

(***************************************************************************)
(* FacebookClient.process_queries (client.py): one step per unit of work.  *)
(* The generator's position is client.pc with the loop indices; what the   *)
(* last step asked of the API and yielded to the caller is client.step.    *)
(***************************************************************************)

MaxQueries == 2

RECURSIVE Split(_, _)
\* s.split(sep) for a separator of one character
Split(s, sep) ==
    LET at == {i \in 1..Len(s) : SubSeq(s, i, i) = sep}
    IN  IF at = {} THEN <<s>>
        ELSE LET first == CHOOSE i \in at : \A j \in at : i <= j
             IN  <<SubSeq(s, 1, first - 1)>> \o Split(SubSeq(s, first + 1, Len(s)), sep)

RECURSIVE Strip(_)
\* s.strip() of blanks
Strip(s) ==
    IF Len(s) > 0 /\ SubSeq(s, 1, 1) = " " THEN Strip(SubSeq(s, 2, Len(s)))
    ELSE IF Len(s) > 0 /\ SubSeq(s, Len(s), Len(s)) = " "
    THEN Strip(SubSeq(s, 1, Len(s) - 1))
    ELSE s

\* Account(id, fb_page_id); fb_page_id "" stands for None
Account(id, fb_page_id) == [id |-> id, fb_page_id |-> fb_page_id]

\* list(config.accounts.values()): a page, and an account without fb_page_id
Accounts == <<Account("a1", "p1"), Account("a2", "")>>

\* self.oauth.data.get("access_token")
UserToken == "user_token"

\* accounts = [account for account in accounts if account.id in selected_ids]
SelectedAccounts(accounts, row_config) ==
    LET ids_str == row_config.query.ids
        selected_ids == {Split(ids_str, ",")[i] : i \in DOMAIN Split(ids_str, ",")}
    IN  IF ids_str # ""
        THEN SelectSeq(accounts, LAMBDA account : account.id \in selected_ids)
        ELSE accounts

\* {account.id: self.oauth.data.get("access_token") for account in accounts}
UserTokens(accounts) ==
    FoldLeft(LAMBDA d, account : Put(d, account.id, UserToken), <<>>, accounts)

\* the tokens are computed for the accounts given at every call: nothing is
\* kept, and without a response of me/accounts the user token is used
_get_pages_token_uncached(self_page_tokens, accounts, response) ==
    IF response = Null \/ IsRaise(response) THEN Dict(UserTokens(accounts))
    ELSE LET page_token_map ==
                 FoldLeft(LAMBDA m, page :
                              IF Has(page.d, "id") /\ Has(page.d, "access_token")
                              THEN Put(m, Get(page.d, "id", Null).s,
                                       Get(page.d, "access_token", Null).s)
                              ELSE m,
                          <<>>, Get(response.d, "data", List(<<>>)).l)
         IN  Dict(FoldLeft(LAMBDA d, account :
                               Put(d, account.id,
                                   IF account.fb_page_id # ""
                                   THEN Get(page_token_map, account.fb_page_id, UserToken)
                                   ELSE UserToken),
                           <<>>, accounts))

\* self.page_tokens after the call, which is also what the call returns;
\* response is what GET me/accounts gives when the cache is empty
_get_pages_token(self_page_tokens, accounts, response) ==
    IF self_page_tokens # Null THEN self_page_tokens
    ELSE IF IsRaise(response) THEN Dict(UserTokens(accounts))
    ELSE LET page_token_map ==
                 FoldLeft(LAMBDA m, page :
                              IF Has(page.d, "id") /\ Has(page.d, "access_token")
                              THEN Put(m, Get(page.d, "id", Null).s,
                                       Get(page.d, "access_token", Null).s)
                              ELSE m,
                          <<>>, Get(response.d, "data", List(<<>>)).l)
         IN  Dict(FoldLeft(LAMBDA d, account :
                               Put(d, account.id,
                                   IF account.fb_page_id # ""
                                   THEN Get(page_token_map, account.fb_page_id, UserToken)
                                   ELSE UserToken),
                           <<>>, accounts))

\* is_batchable_query and not is_insights_query
BatchEligible(row_config) ==
    /\ row_config.query.path = ""
    /\ row_config.type # "nested-query"
    /\ ~StartsWith(row_config.query.fields, "insights")

\* the ids of the batch request
BatchAccountIds(accounts, row_config) ==
    IF row_config.query.ids # ""
    THEN [i \in DOMAIN Split(row_config.query.ids, ",") |->
              Strip(Split(row_config.query.ids, ",")[i])]
    ELSE [i \in DOMAIN accounts |-> accounts[i].id]

\* PageLoader.start_async_insights_job: the report id of the POST's response,
\* None when there is none or the POST raised
start_async_insights_job(post) ==
    IF IsRaise(post) THEN Null
    ELSE IF ~Truthy(Get(post.d, "report_run_id", Null)) THEN Null
    ELSE Get(post.d, "report_run_id", Null)

\* page_content of a loaded page: the object itself for a query without path
PageContent(row_config, page_data) ==
    IF row_config.query.path = "" /\ ~Has(page_data.d, "data")
    THEN IF Truthy(page_data) /\ Has(page_data.d, "id") THEN <<page_data>> ELSE <<>>
    ELSE Get(page_data.d, "data", List(<<>>)).l

\* one request to the API
Request(kind, id, token) == [kind |-> kind, id |-> id, token |-> token]

\* the requests parse_data made for later pages
PageRequests(fetched) == [i \in DOMAIN fetched |-> Request("page", fetched[i], "")]

\* one mapping handed to the caller: whose it is and the tables it has
Yield(page_id, result) == [page_id |-> page_id, tables |-> Tables(result)]

Step(op, requests, yielded) == [op |-> op, requests |-> requests, yielded |-> yielded]

\* the queries of a run (tests/fixtures/sample_configs.py): an async insights
\* query, the feed query for all accounts and for one, a page query, and a
\* query of another type without path, which is fetched in one batch
AdsQuery ==
    QueryRow("ads", "async-insights-query",
             QueryConfig("", "", "", "level=ad&action_breakdowns=action_type"))

FeedQueryById ==
    QueryRow("feed", "nested-query",
             QueryConfig("feed", "message,likes{name},comments{message,from,likes{name}}",
                         "a2", ""))

PageQuery == QueryRow("page", "nested-query", QueryConfig("", "id,name", "", ""))

PagesQuery == QueryRow("pages", "query", QueryConfig("", "id,name,posts{message}", "", ""))

ClientQueries == {AdsQuery, FeedQuery, FeedQueryById, PageQuery, PagesQuery}

\* what the API answers
PostOutcomes(k) ==
    {Dict(<<KV("report_run_id", Str("r" \o ToString(k)))>>), Dict(<<>>),
     Exception("HTTPError", "400 Client Error: Bad Request")}

PollOutcomes ==
    {Response(<<ActionsRow>>, ""), Response(<<ActionsRow>>, UrlOf(1)), Response(<<>>, ""),
     Exception("UserException", "Async insights job failed: Job Failed")}

LoadOutcomes ==
    {Response(<<PlainRow>>, ""), Response(<<PlainRow>>, UrlOf(1)), Response(<<>>, ""),
     PlainRow,
     Exception("HTTPError", "400 Client Error: Bad Request"),
     Exception("HTTPError", "500 Server Error"),
     Exception("UserException", "Query failed with status 400")}

MeAccountsOutcomes ==
    {Dict(<<KV("data", List(<<Dict(<<KV("id", Str("p1")),
                                     KV("access_token", Str("page_token_p1"))>>)>>))>>),
     Dict(<<KV("data", List(<<>>))>>),
     Exception("HTTPError", "400 Client Error: Bad Request")}

\* one object of a batch response: the object, an error, or an object with a
\* nested collection that has a next page
BatchItem(kind, id) ==
    CASE kind = "object" -> Dict(<<KV("id", Str(id)), KV("name", Str("Page"))>>)
      [] kind = "error"  -> Dict(<<KV("error", Dict(<<KV("message", Str("unsupported"))>>))>>)
      [] kind = "paged"  ->
            Dict(<<KV("id", Str(id)), KV("name", Str("Page")),
                   KV("posts", Dict(<<KV("data", List(<<PlainRow>>)),
                                      KV("paging",
                                         Dict(<<KV("next", Str(UrlOf(1)))>>))>>))>>)

BatchOutcomes(account_ids) ==
    {Dict([i \in DOMAIN account_ids |-> KV(account_ids[i], BatchItem(kinds[i], account_ids[i]))]) :
         kinds \in [DOMAIN account_ids -> {"object", "error", "paged"}]}
    \cup {Dict(<<>>), Null, List(<<Str("a1")>>),
          HTTPError("400 Client Error: Bad Request for url",
                    ErrorResponse(Null, "(#190) This method must be called with a Page Access Token")),
          HTTPError("400 Client Error: Page Access Token",
                    ErrorResponse(Null, "(#100) Tried accessing nonexisting field")),
          HTTPError("500 Server Error: Internal Server Error for url",
                    ErrorResponse(Null, "Internal Server Error"))}

\* later pages that load, and later pages whose load raises
FailingPages == [u \in Urls |-> Exception("HTTPError", "500 Server Error")]

Loaders == {LastPages, FailingPages}

\* the loaders that differ for a page: both when it names a next page
LoadersFor(page_data) ==
    IF IsRaise(page_data) THEN {LastPages}
    ELSE IF NextUrl(page_data) # Null THEN Loaders
    ELSE {LastPages}

\* every failed load is made again with the user token
FallsBack_on_any_error(is_page_token, e) == IsRaise(e)

\* the page token failed with a 400: the load is made again with the user token
FallsBack(is_page_token, e) == IsRaise(e) /\ is_page_token /\ StartsWith(e.e, "400")

\* page_loader=None: self.page_loader.load_page_from_url raises AttributeError
NoLoader == [u \in Urls |-> Exception("AttributeError", "NoneType")]

\* the load attempts of one round of the loop over page_tokens.items(): the
\* query and the position of the round, and for each attempt the token used
\* and what load_page left
Attempt(token, answer) == [token |-> token, answer |-> answer]

LoadRound(row_config, si, ti, attempts) ==
    [row_config |-> row_config, si |-> si, ti |-> ti, attempts |-> attempts]

\* the batch request of a query: the position of the query, what the request
\* left, and the batch requests made for the query so far
BatchRound(si, response, count) == [si |-> si, response |-> response, count |-> count]

\* no batch request yet
NoBatch == BatchRound(0, Null, 0)

\* one round of the loop of _poll_and_process_async_jobs: the position of
\* the job, what poll_async_job left and the later pages of its result
JobRound(ji, page_data, pages) == [ji |-> ji, page_data |-> page_data, pages |-> pages]

\* no job polled yet
NoPoll == JobRound(0, Null, <<>>)

\* no round yet
NoLoad == LoadRound(Null, 0, 0, <<>>)

ClientInit ==
    /\ client \in {[pc |-> "start", phase |-> "", queries |-> queries,
                    async_queries |-> <<>>, sync_queries |-> <<>>,
                    units |-> <<>>, ui |-> 1, jobs |-> <<>>, ji |-> 1,
                    si |-> 1, tokens |-> <<>>, ti |-> 1, page_tokens |-> Null,
                    load |-> NoLoad, batch |-> NoBatch, polled |-> NoPoll,
                    step |-> Step("", <<>>, <<>>)] :
                       queries \in SeqsUpTo(ClientQueries, MaxQueries) \ {<<>>}}
    /\ names = [pc |-> "off"]
    /\ parser = [pc |-> "off"]
    /\ loader = [pc |-> "off"]

\* page_tokens.items() of every async query, query after query; that a query
\* is async makes _request_require_page_token false: the user token is used
StartUnits(accounts, async_queries) ==
    FoldLeft(LAMBDA units, row_config :
                 units \o [i \in DOMAIN UserTokens(SelectedAccounts(accounts, row_config)) |->
                              [row_config |-> row_config,
                               page_id |-> UserTokens(SelectedAccounts(accounts, row_config))[i].k,
                               token |-> UserTokens(SelectedAccounts(accounts, row_config))[i].v]],
             <<>>, async_queries)

\* the generator at sync query si: past the last one it is exhausted
EnterSync(c, si) ==
    IF si > Len(c.sync_queries)
    THEN [c EXCEPT !.pc = "done", !.phase = "", !.si = si, !.tokens = <<>>, !.ti = 1]
    ELSE [c EXCEPT !.pc = "sync", !.si = si, !.tokens = <<>>, !.ti = 1,
                   !.phase = IF /\ BatchEligible(c.sync_queries[si])
                                /\ BatchAccountIds(Accounts, c.sync_queries[si]) # <<>>
                             THEN "batch" ELSE "tokens"]

\* for query in queries: async_queries / sync_queries (client.py 83-89)
Dispatch ==
    /\ client.pc = "start"
    /\ LET async_queries == SelectSeq(client.queries,
                                      LAMBDA query : query.type = "async-insights-query")
           sync_queries == SelectSeq(client.queries,
                                     LAMBDA query : query.type # "async-insights-query")
           units == StartUnits(Accounts, async_queries)
           c == [client EXCEPT !.async_queries = async_queries,
                               !.sync_queries = sync_queries,
                               !.units = units,
                               !.step = Step("dispatch", <<>>, <<>>)]
       IN  client' = IF units # <<>> THEN [c EXCEPT !.pc = "start_jobs"] ELSE EnterSync(c, 1)
    /\ UNCHANGED <<names, parser, loader>>

\* a generator that polls as soon as one job is started
AfterStart_eager(c) ==
    IF c.jobs # <<>> THEN [c EXCEPT !.pc = "poll"]
    ELSE IF c.ui <= Len(c.units) THEN c
    ELSE EnterSync(c, 1)

\* the generator after a start (client.py 94-103): the next account or the
\* next async query; after the last one the jobs are polled, if there are any
AfterStart(c) ==
    IF c.ui <= Len(c.units) THEN c
    ELSE IF c.jobs # <<>> THEN [c EXCEPT !.pc = "poll"]
    ELSE EnterSync(c, 1)

\* one round of the loop of _start_async_jobs_for_query
StartJob ==
    /\ client.pc = "start_jobs"
    /\ \E post \in PostOutcomes(client.ui) :
         LET unit == client.units[client.ui]
             report_id == start_async_insights_job(post)
             details == [page_id |-> unit.page_id,
                         row_config |-> unit.row_config,
                         fb_graph_node |-> _get_fb_graph_node(FALSE, unit.row_config),
                         access_token |-> unit.token]
             jobs == IF Truthy(report_id) THEN Put(client.jobs, report_id.s, details)
                     ELSE client.jobs
             c == [client EXCEPT
                     !.jobs = jobs,
                     !.ui = @ + 1,
                     !.step = Step("start", <<Request("start", unit.page_id, unit.token)>>,
                                   <<>>)]
         IN  client' = AfterStart(c)
    /\ UNCHANGED <<names, parser, loader>>

\* what parse_data returns when it is not called
NoParse == [result |-> <<>>, fetched |-> <<>>, cut |-> FALSE, raised |-> FALSE]

\* if res: yield res
Yielded(page_id, res) ==
    IF ~res.raised /\ res.result # <<>> THEN <<Yield(page_id, res.result)>> ELSE <<>>

\* a job without a result to yield ends the run
AfterPoll_stops_at_failure(c, request, page_id, res) ==
    LET polled == [c EXCEPT !.ji = @ + 1,
                            !.step = Step("poll", <<request>> \o PageRequests(res.fetched),
                                          Yielded(page_id, res))]
    IN  IF Yielded(page_id, res) = <<>> THEN [polled EXCEPT !.pc = "crashed"]
        ELSE IF c.ji < Len(c.jobs) THEN polled ELSE EnterSync(polled, 1)

\* the generator after a job was polled and its result res parsed
AfterPoll(c, request, page_id, res) ==
    LET polled == [c EXCEPT !.ji = @ + 1,
                            !.step = Step("poll", <<request>> \o PageRequests(res.fetched),
                                          Yielded(page_id, res))]
    IN  IF c.ji < Len(c.jobs) THEN polled ELSE EnterSync(polled, 1)

\* one round of the loop of _poll_and_process_async_jobs: everything it raises
\* is caught and logged
PollJob ==
    /\ client.pc = "poll"
    /\ \E page_data \in PollOutcomes : \E pages \in LoadersFor(page_data) :
         LET report_id == client.jobs[client.ji].k
             details == client.jobs[client.ji].v
         IN  client' =
               AfterPoll([client EXCEPT !.polled = JobRound(client.ji, page_data, pages)],
                         Request("poll", report_id, details.access_token),
                         details.page_id,
                         IF ~IsRaise(page_data) /\ Truthy(Get(page_data.d, "data", Null))
                         THEN parse_data([page_loader |-> pages,
                                          page_id |-> details.page_id,
                                          row_config |-> details.row_config],
                                         page_data, details.fb_graph_node,
                                         Str(details.page_id), "", NoCalls)
                         ELSE NoParse)
    /\ UNCHANGED <<names, parser, loader>>

\* if parsed_result: yield parsed_result, unless parse_data raised
AddParsed(acc, item_id, parsed_result) ==
    IF parsed_result.raised THEN [acc EXCEPT !.raised = TRUE]
    ELSE [acc EXCEPT !.yielded = @ \o Yielded(item_id, parsed_result)]

\* the objects of a batch response parsed one after the other, up to the
\* first one whose parse_data raises
BatchItems(row_config, response) ==
    FoldLeft(LAMBDA acc, item :
                 IF acc.raised THEN acc
                 ELSE IF IsDict(item.v) /\ Has(item.v.d, "error") THEN acc
                 ELSE AddParsed(acc, item.k,
                                parse_data([page_loader |-> NoLoader, page_id |-> item.k,
                                            row_config |-> row_config],
                                           item.v, _get_fb_graph_node(FALSE, row_config),
                                           Str(item.k), "", NoCalls)),
             [yielded |-> <<>>, raised |-> FALSE], response.d)

\* the generator after the objects of a batch response were parsed
AfterBatch(c, request, items) ==
    IF items.raised
    THEN [c EXCEPT !.pc = "crashed", !.step = Step("batch", <<request>>, items.yielded)]
    ELSE EnterSync([c EXCEPT !.step = Step("batch", <<request>>, items.yielded)], c.si + 1)

\* no HTTP failure of the batch request is taken for a token error
TokenError_never(e) == FALSE

\* "Page Access Token" in error_text, the text of the body of the error
TokenError(e) == Contains(e.response.text, "Page Access Token")

\* every object is taken for a batch response, the empty one too
BatchUsable_any_object(response) == IsDict(response)

\* not (not response or not isinstance(response, dict))
BatchUsable(response) == Truthy(response) /\ IsDict(response)

\* the batch branch of _process_single_sync_query (client.py 199-233): only
\* HTTPError is caught, and nothing is caught around the loop over the objects
BatchRequest ==
    /\ client.pc = "sync"
    /\ client.phase = "batch"
    /\ \E response \in BatchOutcomes(BatchAccountIds(Accounts, client.sync_queries[client.si])) :
         LET row_config == client.sync_queries[client.si]
             request == Request("batch", row_config.name, UserToken)
             c == [client EXCEPT
                     !.batch = BatchRound(client.si, response,
                                          IF client.batch.si = client.si
                                          THEN client.batch.count + 1 ELSE 1)]
         IN  client' =
               IF IsRaise(response)
               THEN IF TokenError(response)
                    THEN [c EXCEPT !.phase = "tokens",
                                   !.step = Step("batch", <<request>>, <<>>)]
                    ELSE EnterSync([c EXCEPT !.step = Step("batch", <<request>>, <<>>)],
                                   c.si + 1)
               ELSE IF ~BatchUsable(response)
               THEN [c EXCEPT !.phase = "tokens",
                              !.step = Step("batch", <<request>>, <<>>)]
               ELSE AfterBatch(c, request, BatchItems(row_config, response))
    /\ UNCHANGED <<names, parser, loader>>

\* the tokens of the per-account strategy (client.py 237-248)
ResolveTokens ==
    /\ client.pc = "sync"
    /\ client.phase = "tokens"
    /\ \E response \in IF /\ _request_require_page_token(client.sync_queries[client.si])
                          /\ client.page_tokens = Null
                       THEN MeAccountsOutcomes ELSE {Null} :
         LET row_config == client.sync_queries[client.si]
             accounts == SelectedAccounts(Accounts, row_config)
             is_page_token == _request_require_page_token(row_config)
             page_tokens == IF is_page_token
                            THEN _get_pages_token(client.page_tokens, accounts, response).d
                            ELSE UserTokens(accounts)
             c == [client EXCEPT
                     !.page_tokens = IF is_page_token THEN Dict(page_tokens) ELSE @,
                     !.tokens = page_tokens,
                     !.ti = 1,
                     !.phase = "accounts",
                     !.step = Step("tokens",
                                   IF is_page_token /\ client.page_tokens = Null
                                   THEN <<Request("me/accounts", "", UserToken)>> ELSE <<>>,
                                   <<>>)]
         IN  client' = IF page_tokens = <<>> THEN EnterSync(c, client.si + 1) ELSE c
    /\ UNCHANGED <<names, parser, loader>>

\* the generator after an account's page was loaded and parsed into res
\* (client.py 292-297): an exception of parse_data is not caught
AfterLoad(c, requests, page_id, res) ==
    LET loaded == [c EXCEPT !.step = Step("load", requests \o PageRequests(res.fetched),
                                          Yielded(page_id, res))]
    IN  IF res.raised THEN [loaded EXCEPT !.pc = "crashed"]
        ELSE IF c.ti < Len(c.tokens) THEN [loaded EXCEPT !.ti = @ + 1]
        ELSE EnterSync(loaded, c.si + 1)

\* one round of the loop over page_tokens.items() (client.py 250-297): the
\* load and its fallback are inside try, parse_data (line 295) is not
LoadAccount ==
    /\ client.pc = "sync"
    /\ client.phase = "accounts"
    /\ \E first \in LoadOutcomes :
       \E second \in IF FallsBack(_request_require_page_token(client.sync_queries[client.si]),
                                  first)
                      THEN LoadOutcomes ELSE {first} :
       \E pages \in LoadersFor(second) :
         LET row_config == client.sync_queries[client.si]
             page_id == client.tokens[client.ti].k
             token == client.tokens[client.ti].v
             is_page_token == _request_require_page_token(row_config)
             falls_back == FallsBack(is_page_token, first)
             page_data == IF falls_back THEN second ELSE first
             fb_graph_node == _get_fb_graph_node(IF falls_back THEN FALSE ELSE is_page_token,
                                                 row_config)
         IN  client' =
               AfterLoad([client EXCEPT
                            !.load = LoadRound(row_config, client.si, client.ti,
                                               <<Attempt(token, first)>>
                                                   \o (IF falls_back
                                                       THEN <<Attempt(UserToken, second)>>
                                                       ELSE <<>>))],
                         <<Request("load", page_id, token)>>
                             \o (IF falls_back THEN <<Request("load", page_id, UserToken)>>
                                 ELSE <<>>),
                         page_id,
                         IF ~IsRaise(page_data) /\ PageContent(row_config, page_data) # <<>>
                         THEN parse_data([page_loader |-> pages, page_id |-> page_id,
                                          row_config |-> row_config],
                                         page_data, fb_graph_node, Str(page_id), "", NoCalls)
                         ELSE NoParse)
    /\ UNCHANGED <<names, parser, loader>>

ClientNext ==
    \/ Dispatch
    \/ StartJob
    \/ PollJob
    \/ BatchRequest
    \/ ResolveTokens
    \/ LoadAccount

SpecClient == ClientInit /\ [][ClientNext]_vars

\* C2: a failure in one account, one job or one object of a batch skips that
\* unit only: when the run is over, every job has been polled and every sync
\* query has been gone through.
C2_FailureIsolated ==
    client.pc \in {"done", "crashed"} =>
        /\ client.ji > Len(client.jobs)
        /\ client.si > Len(client.sync_queries)

(***************************************************************************)
(* Action rows, base rows and summary rows of parse_data                   *)
(***************************************************************************)

\* the entries of the action-statistics lists of the source rows, each with
\* the name of its field
SourceActions ==
    UNION {UNION {{[field |-> SourceRows[i].d[j].k, entry |-> SourceRows[i].d[j].v.l[n].d] :
                      n \in DOMAIN SourceRows[i].d[j].v.l}
                  : j \in {j \in DOMAIN SourceRows[i].d :
                               /\ SourceRows[i].d[j].k \in ADS_ACTION_STATS_ROW
                               /\ IsList(SourceRows[i].d[j].v)}}
           : i \in DOMAIN SourceRows}

\* the last dot-separated segment of an action type, "post_save" renamed
LastSegmentRenamed(action_type) ==
    IF LastDotSegment(action_type) = "post_save" THEN "post_reaction"
    ELSE LastDotSegment(action_type)

\* C11: in every action row parse_data emits, for breakdown and non-breakdown
\* queries alike, action_type is the last dot-separated segment of the source
\* entry's action_type, with "post_save" emitted as "post_reaction".
C11_ActionTypeNormalized ==
    parser.pc = "done" =>
        \A row \in AllRows(parser.out.result) :
            Has(row, "ads_action_name") =>
                \E a \in SourceActions :
                    /\ Col(row, "ads_action_name") = Str(a.field)
                    /\ Col(row, "value") = Get(a.entry, "value", Str(""))
                    /\ Col(row, "action_type")
                          = Str(LastSegmentRenamed(Get(a.entry, "action_type", Str("")).s))

\* the regular scalar fields of a source row: not values, not a nested
\* collection, not an action-statistics list
ScalarFields(src) ==
    {j \in DOMAIN src : /\ src[j].v.t = "str"
                         /\ src[j].k # "values"
                         /\ src[j].k \notin SERIALIZED_LISTS_TYPES}

\* the rows of the result that are not action rows, sit at the graph node of
\* the call and carry the scalar fields of the source row src
BaseRowsOf(src) ==
    {row \in AllRows(parser.out.result) :
        /\ ~Has(row, "ads_action_name")
        /\ Col(row, "fb_graph_node") = Str(parser.fb_node)
        /\ \A j \in ScalarFields(src) : Col(row, src[j].k) = src[j].v}

\* C17: for a query that is not an action-breakdown query, a source row with
\* a meaningful regular field yields its base row (or its values rows) whether
\* or not it also has action-statistics fields, empty lists included.
C17_BaseRowBesideActions ==
    (parser.pc = "done" /\ ~IsActionBreakdown(parser.self)) =>
        \A i \in DOMAIN SourceRows :
            (/\ \E j \in ScalarFields(SourceRows[i].d) :
                    /\ SourceRows[i].d[j].k \notin BasicIdentifiers
                    /\ SourceRows[i].d[j].v.s # ""
             /\ \/ ~Has(SourceRows[i].d, "values")
                \/ GoodEntries(Get(SourceRows[i].d, "values", Null)) # <<>>)
            => BaseRowsOf(SourceRows[i].d) # {}

\* the fields of a source row whose value is an object with a meaningful summary
SummaryFields(src) ==
    {j \in DOMAIN src : /\ IsDict(src[j].v)
                         /\ Has(src[j].v.d, "summary")
                         /\ IsDict(Get(src[j].v.d, "summary", Null))
                         /\ Truthy(Get(src[j].v.d, "summary", Null))}

\* the rows emitted at the summary node with parent_id = id, table after table
SummaryRowsFor(id) ==
    FoldLeft(LAMBDA rows, tbl :
                 rows \o SelectSeq(tbl.v, LAMBDA row :
                     /\ Col(row, "parent_id") = id
                     /\ Col(row, "fb_graph_node") = Str(parser.fb_node \o "_summary")),
             <<>>, parser.out.result)

\* C18: a source row with k fields whose value is an object containing a
\* meaningful summary yields k summary rows, each built from one field's
\* summary object, with parent_id equal to the source row's id.
C18_SummaryRowPerField ==
    parser.pc = "done" =>
        \A i \in DOMAIN SourceRows :
            LET src == SourceRows[i].d
                emitted == SummaryRowsFor(Get(src, "id", Null))
            IN  (/\ Has(src, "id")
                 /\ \A j \in DOMAIN SourceRows : SourceRows[j] = SourceRows[i] => j = i)
                => /\ Len(emitted) = Cardinality(SummaryFields(src))
                   /\ \A j \in SummaryFields(src) :
                         \E n \in DOMAIN emitted :
                             \A m \in DOMAIN Get(src[j].v.d, "summary", Null).d :
                                 Col(emitted[n], Get(src[j].v.d, "summary", Null).d[m].k)
                                     = Get(src[j].v.d, "summary", Null).d[m].v

(***************************************************************************)
(* PageLoader (page_loader.py)                                             *)
(***************************************************************************)

\* a JSON number
Num(n) == [t |-> "int", n |-> n]

BUSINESS_CONVERSION_ERROR_CODE == 100

BUSINESS_CONVERSION_ERROR_SUBCODE == 2108006

OBJECT_NOT_FOUND_ERROR_SUBCODE == 33

ONE_HOUR_SECONDS == 3600

max_attempts == 60

Digits == "0123456789"

\* c.isdigit() for one character
IsDigit(c) == \E d \in 1..10 : SubSeq(Digits, d, d) = c

\* s.isdigit()
IsDigitString(s) == s # "" /\ \A i \in 1..Len(s) : IsDigit(SubSeq(s, i, i))

\* the value of the digit at place n of s
DigitAt(s, n) == CHOOSE d \in 0..9 : SubSeq(Digits, d + 1, d + 1) = SubSeq(s, n, n)

RECURSIVE IntOfPrefix(_, _)
\* int(s[:n]) for a string of digits
IntOfPrefix(s, n) == IF n = 0 THEN 0 ELSE 10 * IntOfPrefix(s, n - 1) + DigitAt(s, n)

\* int(s) for a string of digits
ParseInt(s) == IntOfPrefix(s, Len(s))

UpperCase == "ABCDEFGHIJKLMNOPQRSTUVWXYZ"

LowerCase == "abcdefghijklmnopqrstuvwxyz"

\* c.lower() for one character
LowerChar(c) ==
    IF \E i \in 1..26 : SubSeq(UpperCase, i, i) = c
    THEN SubSeq(LowerCase, CHOOSE i \in 1..26 : SubSeq(UpperCase, i, i) = c,
                CHOOSE i \in 1..26 : SubSeq(UpperCase, i, i) = c)
    ELSE c

RECURSIVE LowerOf(_, _, _)
\* s[i-1:j].lower(), one half after the other
LowerOf(s, i, j) ==
    IF i > j THEN ""
    ELSE IF i = j THEN LowerChar(SubSeq(s, i, i))
    ELSE LowerOf(s, i, (i + j) \div 2) \o LowerOf(s, (i + j) \div 2 + 1, j)

\* s.lower()
Lower(s) == LowerOf(s, 1, Len(s))

\* str(value) of a JSON value: a list of strings prints as ['a', 'b']
PyStr(value) ==
    CASE value.t = "str"  -> value.s
      [] value.t = "int"  -> ToString(value.n)
      [] value.t = "null" -> "None"
      [] value.t = "list" -> "['" \o JoinWith("', '", [i \in DOMAIN value.l |-> value.l[i].s])
                             \o "']"
      [] value.t = "dict" -> "{...}"

\* the timestamp parsing switched off: no value is a timestamp
_parse_unix_ts_none(value) == Null

_parse_unix_ts(value) ==
    IF value = Null THEN Null
    ELSE IF IsDigitString(PyStr(value)) /\ Len(PyStr(value)) = 10
    THEN Num(ParseInt(PyStr(value)))
    ELSE Null

_check_error_matches(http_error, error_phrase, error_code, error_subcode) ==
    \/ /\ http_error.response # Null
       /\ \/ /\ error_code # Null
             /\ error_subcode # Null
             /\ IsDict(http_error.response.json)
             /\ IsDict(Get(http_error.response.json.d, "error", Dict(<<>>)))
             /\ LET error_info == Get(http_error.response.json.d, "error", Dict(<<>>)).d
                IN  \/ /\ Get(error_info, "code", Null) = error_code
                       /\ Get(error_info, "error_subcode", Null) = error_subcode
                    \/ Contains(Lower(PyStr(Get(error_info, "error_user_title", Str(""))))
                                \o " "
                                \o Lower(PyStr(Get(error_info, "error_user_msg", Str(""))))
                                \o " "
                                \o Lower(PyStr(Get(error_info, "message", Str("")))),
                                error_phrase)
          \/ Contains(Lower(http_error.response.text), error_phrase)
    \/ Contains(Lower(http_error.e), error_phrase)

_is_business_conversion_error(http_error) ==
    _check_error_matches(http_error, "media posted before business account conversion",
                         Num(BUSINESS_CONVERSION_ERROR_CODE),
                         Num(BUSINESS_CONVERSION_ERROR_SUBCODE))

_is_30day_limit_error(http_error) ==
    _check_error_matches(http_error, "there cannot be more than 30 days", Null, Null)

_is_object_not_found_error(http_error) ==
    _check_error_matches(http_error,
                         "does not exist, cannot be loaded due to missing permissions",
                         Num(BUSINESS_CONVERSION_ERROR_CODE),
                         Num(OBJECT_NOT_FOUND_ERROR_SUBCODE))

\* every HTTP error taken for a recoverable one
_is_recoverable_error_always(http_error) == TRUE

_is_recoverable_error(http_error) ==
    \/ _is_business_conversion_error(http_error)
    \/ _is_30day_limit_error(http_error)
    \/ _is_object_not_found_error(http_error)

\* {"data": []}
EmptyData == Dict(<<KV("data", List(<<>>))>>)

\* what a call of the loader leaves: the value it returns or the exception it
\* raises, and the requests it made
Outcome(result, requests) == [result |-> result, requests |-> requests]

HttpRequest(method, path, params) == [method |-> method, path |-> path, params |-> params]

\* try: client.get(...), return response or {"data": []}; except HTTPError:
\* {"data": []} when recoverable, raise otherwise; except Exception: raise
GetOrRecover(path, params, http) ==
    Outcome(IF IsRaise(http)
            THEN IF http.kind = "HTTPError" /\ _is_recoverable_error(http)
                 THEN EmptyData ELSE http
            ELSE IF Truthy(http) THEN http ELSE EmptyData,
            <<HttpRequest("GET", path, params)>>)

\* params.pop("until", None) that removes nothing
Pop_nothing(d, key) == d

\* d.pop(key, None)
Pop(d, key) == SelectSeq(d, LAMBDA item : item.k # key)

\* the keys of a query string in the order they first appear
QueryKeys(query) ==
    FoldLeft(LAMBDA keys, p : IF \E i \in DOMAIN keys : keys[i] = p.k THEN keys
                              ELSE Append(keys, p.k),
             <<>>, query)

\* parse_qs(query) with one-element lists replaced by their element: blank
\* values are dropped, a repeated key keeps all its values as a list
QueryParams(query) ==
    LET kept == SelectSeq(query, LAMBDA p : p.v # "")
        values(k) == SelectSeq(kept, LAMBDA p : p.k = k)
    IN  [i \in DOMAIN QueryKeys(kept) |->
            KV(QueryKeys(kept)[i],
               IF Len(values(QueryKeys(kept)[i])) = 1
               THEN Str(values(QueryKeys(kept)[i])[1].v)
               ELSE List([n \in DOMAIN values(QueryKeys(kept)[i]) |->
                             Str(values(QueryKeys(kept)[i])[n].v)]))]

\* the body of load_page_from_url once the URL is parsed
LoadFromParams(path, params, since_ts, until_ts, now_ts, http) ==
    IF since_ts # Null /\ until_ts = Null /\ since_ts.n > now_ts - ONE_HOUR_SECONDS
    THEN Outcome(EmptyData, <<>>)
    ELSE IF until_ts # Null /\ until_ts.n > now_ts
    THEN IF since_ts # Null /\ since_ts.n > now_ts
         THEN Outcome(EmptyData, <<>>)
         ELSE IF since_ts # Null /\ since_ts.n > now_ts - ONE_HOUR_SECONDS
         THEN Outcome(EmptyData, <<>>)
         ELSE GetOrRecover(path, Pop(params, "until"), http)
    ELSE GetOrRecover(path, params, http)

load_page_from_url(url, now_ts, http) ==
    LoadFromParams(url.path, QueryParams(url.query),
                   _parse_unix_ts(Get(QueryParams(url.query), "since", Null)),
                   _parse_unix_ts(Get(QueryParams(url.query), "until", Null)),
                   now_ts, http)

\* _build_params and _build_endpoint_path run before the try: build is what
\* they leave, the request parameters or the UserException of the 30-day
\* validation of Instagram insights
_load_regular_page(path, build, http) ==
    IF IsRaise(build) THEN Outcome(build, <<>>)
    ELSE GetOrRecover(path, build.d, http)

\* attempt += 1 after time.sleep(5)
NextAttempt_stuck(attempt) == attempt

NextAttempt(attempt) == attempt + 1

\* async_status in ["Job Failed", "Job Skipped"], never true
JobFailed_never(async_status) == FALSE

JobFailed(async_status) == async_status \in {Str("Job Failed"), Str("Job Skipped")}

\* the state of one call of poll_async_job: the locals of the loop, the status
\* requests made (counted up to one more than max_attempts), the last status
\* response, and whether the results were requested
PollStart ==
    [pc |-> "polling", attempt |-> 0, is_finished |-> FALSE, async_status |-> Str(""),
     status_requests |-> 0, last_status |-> Null, results_requested |-> FALSE,
     result |-> Null]

\* the test after the loop (page_loader.py 114-115): the timeout is raised, or
\* the results are requested next
AfterLoop(poll) ==
    IF ~poll.is_finished \/ poll.async_status # Str("Job Completed")
    THEN [poll EXCEPT !.pc = "raised",
                      !.result = Exception("UserException",
                                           "Async insights job did not complete within timeout")]
    ELSE [poll EXCEPT !.pc = "results"]

\* the loop test (line 86) with the locals of poll
LoopOrLeave(poll) ==
    IF (~poll.is_finished \/ poll.async_status # Str("Job Completed"))
       /\ poll.attempt < max_attempts
    THEN poll
    ELSE AfterLoop(poll)

\* the rest of a round once the status response is read (lines 96-108)
StatusRead(poll, async_percent, async_status) ==
    IF JobFailed(async_status)
    THEN [poll EXCEPT !.pc = "raised",
                      !.result = Exception("UserException", "Async insights job failed")]
    ELSE LoopOrLeave(
             [poll EXCEPT !.is_finished = (async_percent = Num(100)),
                          !.async_status = async_status,
                          !.attempt = IF async_percent # Num(100)
                                         \/ async_status # Str("Job Completed")
                                      THEN NextAttempt(@) ELSE @])

\* one round of the loop of poll_async_job for the status response given,
\* up to the next request or the end of the call
PollRound(poll, response) ==
    IF IsRaise(response) THEN [poll EXCEPT !.pc = "raised", !.result = response]
    ELSE IF response = Null \/ ~Truthy(response) THEN AfterLoop(poll)
    ELSE StatusRead(poll,
                    Get(response.d, "async_percent_completion", Num(0)),
                    Get(response.d, "async_status", Str("Unknown")))

\* the status request of a round and what the round makes of its response
poll_status(poll, response) ==
    PollRound([poll EXCEPT !.status_requests = IF @ > max_attempts THEN @ ELSE @ + 1,
                           !.last_status = response],
              response)

\* the request of {report_id}/insights (lines 118-124)
poll_results(poll, response) ==
    [poll EXCEPT !.pc = "returned",
                 !.results_requested = TRUE,
                 !.result = IF IsRaise(response) THEN EmptyData
                            ELSE IF response # Null /\ Truthy(response) THEN response
                            ELSE EmptyData]

(***************************************************************************)
(* Calls of the loader and what the HTTP client answers                    *)
(***************************************************************************)

\* datetime.now(timezone.utc).timestamp() at the time of the call
Now == 1700003600

\* values of since in a next URL: none, a timestamp one hour old to the
\* second, a newer one, an old one, one in the future, and values that are
\* no 10-digit timestamp
SinceValues ==
    {<<>>, <<"1700000000">>, <<"1700000001">>, <<"1600000000">>, <<"1700009999">>,
     <<"17000000">>, <<"2023-11-14">>, <<"1700000001", "1700000001">>}

\* values of until: none, blank, a past timestamp, now, a second later, a
\* future timestamp, a date
UntilValues ==
    {<<>>, <<"">>, <<"1650000000">>, <<"1700003600">>, <<"1700003601">>, <<"1700009999">>,
     <<"2023-11-15">>}

\* the next URL of a page of {page}/insights with the since and until given
NextUrlWith(since, until) ==
    [path |-> "/v23.0/177057932317550/insights",
     query |-> <<KV("metric", "page_fans")>>
               \o [i \in DOMAIN since |-> KV("since", since[i])]
               \o [i \in DOMAIN until |-> KV("until", until[i])]
               \o <<KV("access_token", "token")>>]

\* the JSON body of a Graph API error
ErrorBody(code, subcode, message, title) ==
    Dict(<<KV("error", Dict(<<KV("message", Str(message)), KV("type", Str("OAuthException")),
                              KV("code", Num(code))>>
                            \o (IF subcode = 0 THEN <<>>
                                ELSE <<KV("error_subcode", Num(subcode))>>)
                            \o (IF title = "" THEN <<>>
                                ELSE <<KV("error_user_title", Str(title))>>)))>>)

\* an HTTP 400 with a Graph API error as its body
GraphError(code, subcode, message, title) ==
    HTTPError("400 Client Error: Bad Request for url",
              ErrorResponse(ErrorBody(code, subcode, message, title),
                            "error: " \o message \o " " \o title))

\* HTTP errors of the three recoverable conditions, by code and subcode, by a
\* phrase in the body, in the text of a body that is no JSON, or in the text
\* of the exception alone
RecoverableErrors ==
    {GraphError(100, 2108006, "Invalid parameter", ""),
     GraphError(100, 0, "Invalid parameter", "Media Posted Before Business Account Conversion"),
     GraphError(100, 0, "(#100) There cannot be more than 30 days between since and until", ""),
     GraphError(100, 33, "Unsupported get request.", ""),
     HTTPError("400 Client Error: Bad Request for url",
               ErrorResponse(Null, "Object with ID '1' Does Not Exist, cannot be loaded due to missing permissions, or does not support this operation")),
     HTTPError("400 Client Error: MEDIA POSTED BEFORE BUSINESS ACCOUNT CONVERSION", Null)}

\* other HTTP errors
HardErrors ==
    {GraphError(190, 460, "Error validating access token", ""),
     GraphError(100, 34, "Unsupported get request.", ""),
     GraphError(200, 33, "Permissions error", ""),
     HTTPError("500 Server Error: Internal Server Error for url",
               ErrorResponse(Null, "Internal Server Error")),
     HTTPError("400 Client Error: Bad Request for url", Null)}

\* what client.get leaves for a page: a page, an empty body, None, an HTTP
\* error, or another exception
HttpOutcomes ==
    {Response(<<PlainRow>>, ""), Dict(<<>>), Null,
     Exception("ConnectionError", "Connection aborted")}
    \cup RecoverableErrors \cup HardErrors

\* what _build_params leaves
BuildOutcomes ==
    {Dict(<<KV("limit", Str("25")), KV("fields", Str("id,name"))>>),
     Exception("UserException", "Instagram insights queries cannot exceed 30 days")}

\* a status response of an async job
JobStatus(async_percent, async_status) ==
    Dict(<<KV("id", Str("r1")), KV("async_percent_completion", async_percent),
           KV("async_status", Str(async_status))>>)

\* what the status request leaves
StatusOutcomes ==
    {JobStatus(Num(100), "Job Completed"), JobStatus(Num(50), "Job Running"),
     JobStatus(Num(100), "Job Running"), JobStatus(Num(0), "Job Completed"),
     JobStatus(Str("100"), "Job Completed"),
     JobStatus(Num(40), "Job Failed"), JobStatus(Num(100), "Job Skipped"),
     Dict(<<KV("id", Str("r1"))>>), Dict(<<>>),
     GraphError(100, 33, "Unsupported get request.", ""),
     GraphError(190, 460, "Error validating access token", ""),
     Exception("ConnectionError", "Connection aborted")}

\* what the results request leaves
ResultsOutcomes ==
    {Response(<<ActionsRow>>, ""), Dict(<<>>),
     GraphError(100, 33, "Unsupported get request.", "")}

\* a call of the loader before it runs
LoaderCall(op, input) ==
    [pc |-> "call", op |-> op, input |-> input, requests |-> <<>>, result |-> Null,
     poll |-> PollStart]

LoaderCalls ==
    {LoaderCall("load_page_from_url", [url |-> NextUrlWith(s, u), now |-> Now, http |-> h]) :
         s \in SinceValues, u \in UntilValues, h \in HttpOutcomes}
    \cup {LoaderCall("load_page", [query_type |-> "nested-query", build |-> b, http |-> h,
                                   post |-> Null]) :
              b \in BuildOutcomes, h \in HttpOutcomes}
    \cup {LoaderCall("load_page", [query_type |-> "async-insights-query", build |-> Null,
                                   http |-> Null, post |-> p]) : p \in PostOutcomes(1)}
    \cup {LoaderCall("start_async_insights_job", [post |-> p]) :
              p \in PostOutcomes(1) \cup {GraphError(100, 33, "Unsupported get request.", "")}}
    \cup {LoaderCall("poll_async_job", [report_id |-> "r1"])}

LoaderInit ==
    /\ loader \in LoaderCalls
    /\ names = [pc |-> "off"]
    /\ parser = [pc |-> "off"]
    /\ client = [pc |-> "off"]

\* the call ends with what the operation leaves
Finish(outcome) ==
    [loader EXCEPT !.pc = IF outcome.result # Null /\ IsRaise(outcome.result)
                          THEN "raised" ELSE "returned",
                   !.result = outcome.result,
                   !.requests = outcome.requests]

\* the loader, polling or done, after a round of poll_async_job
Polled(poll) ==
    [loader EXCEPT !.pc = poll.pc, !.poll = poll, !.result = poll.result]

LoadPageFromUrl ==
    /\ loader.pc = "call"
    /\ loader.op = "load_page_from_url"
    /\ loader' = Finish(load_page_from_url(loader.input.url, loader.input.now,
                                           loader.input.http))
    /\ UNCHANGED <<names, parser, client>>

\* load_page: a regular page, or for an async query the start of the job and,
\* with a report id, the polling that follows
LoadPage ==
    /\ loader.pc = "call"
    /\ loader.op = "load_page"
    /\ loader' =
         IF loader.input.query_type = "async-insights-query"
         THEN IF start_async_insights_job(loader.input.post) = Null
              THEN Finish(Outcome(EmptyData,
                                  <<HttpRequest("POST", "/v23.0/act_1/insights", <<>>)>>))
              ELSE [loader EXCEPT !.pc = "polling",
                                  !.requests =
                                      <<HttpRequest("POST", "/v23.0/act_1/insights", <<>>)>>]
         ELSE Finish(_load_regular_page("/v23.0/177057932317550/feed", loader.input.build,
                                        loader.input.http))
    /\ UNCHANGED <<names, parser, client>>

StartAsyncInsightsJob ==
    /\ loader.pc = "call"
    /\ loader.op = "start_async_insights_job"
    /\ loader' = Finish(Outcome(start_async_insights_job(loader.input.post),
                                <<HttpRequest("POST", "/v23.0/act_1/insights", <<>>)>>))
    /\ UNCHANGED <<names, parser, client>>

\* one status request of poll_async_job and the round of the loop it is in
PollStatus ==
    /\ \/ loader.pc = "polling"
       \/ loader.pc = "call" /\ loader.op = "poll_async_job"
    /\ \E response \in StatusOutcomes : loader' = Polled(poll_status(loader.poll, response))
    /\ UNCHANGED <<names, parser, client>>

\* the results request of poll_async_job
PollResults ==
    /\ loader.pc = "results"
    /\ \E response \in ResultsOutcomes : loader' = Polled(poll_results(loader.poll, response))
    /\ UNCHANGED <<names, parser, client>>

LoaderNext ==
    \/ LoadPageFromUrl
    \/ LoadPage
    \/ StartAsyncInsightsJob
    \/ PollStatus
    \/ PollResults

SpecLoader == LoaderInit /\ [][LoaderNext]_vars

\* a call of poll_async_job runs on: the HTTP client answers every status
\* request and every results request, and time.sleep(5) returns
SpecLoaderFair == SpecLoader /\ WF_vars(PollStatus) /\ WF_vars(PollResults)

(***************************************************************************)
(* Properties of the loader                                                *)
(***************************************************************************)

\* the call of the loader has ended
LoaderDone == loader.pc \in {"returned", "raised"}

\* the values a query string gives for key, blank ones included
ParamValues(query, key) == SelectSeq(query, LAMBDA p : p.k = key)

\* value is a 10-digit Unix timestamp later than bound
TimestampAfter(value, bound) ==
    /\ Len(value) = 10
    /\ \A i \in 1..10 : \E d \in 1..10 : SubSeq(Digits, d, d) = SubSeq(value, i, i)
    /\ ParseInt(value) > bound

\* C12: load_page_from_url with a next URL whose since is a 10-digit Unix
\* timestamp later than now - 3600 seconds and which has no until parameter
\* returns {data: []} and makes no call to the HTTP client.
C12_StaleSinceShortCircuit ==
    (/\ LoaderDone
     /\ loader.op = "load_page_from_url"
     /\ Len(ParamValues(loader.input.url.query, "since")) = 1
     /\ TimestampAfter(ParamValues(loader.input.url.query, "since")[1].v,
                       loader.input.now - 3600)
     /\ ParamValues(loader.input.url.query, "until") = <<>>)
    => /\ loader.pc = "returned"
       /\ loader.result = EmptyData
       /\ loader.requests = <<>>

\* a next URL with a since one second younger than an hour and no until was
\* given to a loader whose HTTP client would have answered with a page
C12_Witness ==
    /\ loader.pc = "returned"
    /\ loader.op = "load_page_from_url"
    /\ loader.input.url = NextUrlWith(<<"1700000001">>, <<>>)
    /\ loader.input.http = Response(<<PlainRow>>, "")
    /\ loader.result = EmptyData
    /\ loader.requests = <<>>

\* the three known conditions: the phrase, and the subcode that goes with
\* code 100 (0 when the condition has none)
KnownConditions ==
    {[phrase |-> "media posted before business account conversion", subcode |-> 2108006],
     [phrase |-> "there cannot be more than 30 days", subcode |-> 0],
     [phrase |-> "does not exist, cannot be loaded due to missing permissions",
      subcode |-> 33]}

\* the error object of the JSON body of an HTTP error, empty when there is none
ErrorInfoOf(e) ==
    IF e.response = Null THEN <<>>
    ELSE IF e.response.json = Null THEN <<>>
    ELSE Get(e.response.json.d, "error", Dict(<<>>)).d

\* the HTTP error e matches a known condition by code and subcode, or by its
\* phrase, whatever the case, in the body or in the text of the error
MatchesKnownCondition(e) ==
    \E c \in KnownConditions :
        \/ /\ c.subcode # 0
           /\ Get(ErrorInfoOf(e), "code", Null) = Num(100)
           /\ Get(ErrorInfoOf(e), "error_subcode", Null) = Num(c.subcode)
        \/ Contains(Lower(e.e), c.phrase)
        \/ e.response # Null /\ Contains(Lower(e.response.text), c.phrase)

\* the loader made its request and the HTTP client raised an HTTP error
HttpErrorRaised ==
    /\ LoaderDone
    /\ \/ loader.op = "load_page_from_url"
       \/ loader.op = "load_page" /\ loader.input.query_type # "async-insights-query"
    /\ loader.requests # <<>>
    /\ loader.input.http # Null
    /\ IsRaise(loader.input.http)
    /\ loader.input.http.kind = "HTTPError"

\* C13: when the HTTP client raises an HTTP error during a sync load or a
\* pagination follow, the call returns {"data": []} if the error matches one
\* of the three known conditions by code and subcode or by phrase, and
\* re-raises the error in every other case.
C13_RecoverableErrorMapping ==
    HttpErrorRaised =>
        IF MatchesKnownCondition(loader.input.http)
        THEN loader.pc = "returned" /\ loader.result = EmptyData
        ELSE loader.pc = "raised" /\ loader.result = loader.input.http

\* a pagination follow whose request failed with the phrase of the 30-day
\* condition in the body came back empty
C13_Witness ==
    /\ HttpErrorRaised
    /\ loader.op = "load_page_from_url"
    /\ loader.input.http
         = GraphError(100, 0, "(#100) There cannot be more than 30 days between since and until", "")
    /\ loader.result = EmptyData

\* C15: poll_async_job issues at most 60 status requests for one job and
\* always terminates, by returning a result or by raising, whatever the
\* status responses are.
C15_PollBoundedAndTerminates ==
    /\ [](loader.poll.status_requests <= 60)
    /\ (loader.op = "poll_async_job" \/ loader.pc = "polling") ~> LoaderDone

\* the 60th status request of a job was answered like the 59 before it and
\* the call gave up
C15_Witness ==
    /\ loader.op = "poll_async_job"
    /\ loader.pc = "raised"
    /\ loader.poll.status_requests = 60
    /\ loader.poll.attempt = 60
    /\ loader.poll.last_status = JobStatus(Num(50), "Job Running")

\* the last status response named the job failed or skipped
LastStatusFailed ==
    /\ loader.poll.last_status # Null
    /\ IsDict(loader.poll.last_status)
    /\ Get(loader.poll.last_status.d, "async_status", Null)
           \in {Str("Job Failed"), Str("Job Skipped")}

\* C19: the results endpoint is requested only after a status response with
\* async_percent_completion = 100 and async_status = "Job Completed"; a status
\* response with "Job Failed" or "Job Skipped" ends the call with an
\* exception: the call is over, so no status or results request follows.
C19_ResultsOnlyAfterCompletion ==
    /\ (loader.pc = "results" \/ loader.poll.results_requested) =>
           /\ loader.poll.last_status # Null
           /\ IsDict(loader.poll.last_status)
           /\ Get(loader.poll.last_status.d, "async_percent_completion", Null) = Num(100)
           /\ Get(loader.poll.last_status.d, "async_status", Null) = Str("Job Completed")
    /\ LastStatusFailed =>
           /\ loader.pc = "raised"
           /\ ~loader.poll.results_requested

\* a job that was running at the first status request and complete at the
\* second had its results fetched
C19_Witness ==
    /\ loader.op = "poll_async_job"
    /\ loader.pc = "returned"
    /\ loader.poll.results_requested
    /\ loader.poll.status_requests = 2
    /\ loader.result = Response(<<ActionsRow>>, "")

\* C20: no operation of the loader raises to its caller an HTTP failure that
\* matches one of the three recoverable conditions.
C20_RecoverableNeverRaised ==
    loader.pc = "raised" =>
        ~(loader.result.kind = "HTTPError" /\ MatchesKnownCondition(loader.result))

(***************************************************************************)
(* Order of the requests of process_queries, and the accounts a sync query *)
(* is loaded for                                                           *)
(***************************************************************************)

\* the kinds of the requests of the last step
RequestKinds == {client.step.requests[i].kind : i \in DOMAIN client.step.requests}

\* C14: every start request of every async query of the run is issued before
\* the first status poll: when a start request is issued no job has been
\* polled yet, and when a job is polled every account of every async query
\* has had its start request.
C14_StartsBeforePolls ==
    /\ "start" \in RequestKinds => client.ji = 1
    /\ "poll" \in RequestKinds => client.ui > Len(client.units)

\* C14 witness: a run of two async queries polls its first job after the
\* four start requests, all of which gave a job.
C14_Witness ==
    /\ "poll" \in RequestKinds
    /\ Len(client.async_queries) = 2
    /\ Len(client.units) = 4
    /\ Len(client.jobs) = 4
    /\ client.ji = 2

\* the ids of the configured accounts a query is meant for: those of its
\* list, all of them without a list
TargetIds(row_config) ==
    LET ids == Split(row_config.query.ids, ",")
    IN  IF row_config.query.ids = "" THEN {Accounts[i].id : i \in DOMAIN Accounts}
        ELSE {Accounts[i].id : i \in {j \in DOMAIN Accounts :
                                         \E k \in DOMAIN ids : ids[k] = Accounts[j].id}}

\* the ids the loop over page_tokens.items() issues its loads for
LoadedIds == {client.tokens[i].k : i \in DOMAIN client.tokens}

\* C16: the per-account strategy loads a sync query for exactly the
\* configured accounts of its id list, or for every configured account when
\* it has none, whatever queries ran before it.
C16_LoadsForTargetAccounts ==
    (client.pc = "sync" /\ client.phase = "accounts") =>
        LoadedIds = TargetIds(client.sync_queries[client.si])

(***************************************************************************)
(* A next URL whose until lies in the future                               *)
(***************************************************************************)

\* what a query string says for key: nothing, its value, or its values
UrlValue(query, key) ==
    LET given == SelectSeq(ParamValues(query, key), LAMBDA p : p.v # "")
    IN  IF given = <<>> THEN Null
        ELSE IF Len(given) = 1 THEN Str(given[1].v)
        ELSE List([i \in DOMAIN given |-> Str(given[i].v)])

\* the query string gives key once, as a 10-digit timestamp later than bound
OneTimestampAfter(query, key, bound) ==
    /\ Len(ParamValues(query, key)) = 1
    /\ TimestampAfter(ParamValues(query, key)[1].v, bound)

\* the keys of the query string and of the parameters of the requests made
KeysInPlay ==
    {loader.input.url.query[i].k : i \in DOMAIN loader.input.url.query}
    \cup UNION {{loader.requests[r].params[i].k : i \in DOMAIN loader.requests[r].params} :
                    r \in DOMAIN loader.requests}

\* C21: load_page_from_url with an until that is a 10-digit timestamp later
\* than now returns {data: []} without a request when since is a timestamp
\* later than now - 3600; otherwise it issues the request without until and
\* with every other parameter of the URL as it was. No request it issues
\* has an until timestamp later than now.
C21_FutureUntil ==
    (LoaderDone /\ loader.op = "load_page_from_url") =>
        /\ OneTimestampAfter(loader.input.url.query, "until", loader.input.now) =>
              IF OneTimestampAfter(loader.input.url.query, "since", loader.input.now - 3600)
              THEN /\ loader.pc = "returned"
                   /\ loader.result = EmptyData
                   /\ loader.requests = <<>>
              ELSE /\ Len(loader.requests) = 1
                   /\ loader.requests[1].method = "GET"
                   /\ loader.requests[1].path = loader.input.url.path
                   /\ \A key \in KeysInPlay :
                         Get(loader.requests[1].params, key, Null) =
                             IF key = "until" THEN Null
                             ELSE UrlValue(loader.input.url.query, key)
        /\ \A r \in DOMAIN loader.requests :
              LET until == Get(loader.requests[r].params, "until", Null)
              IN  ~(until.t = "str" /\ TimestampAfter(until.s, loader.input.now))

\* C21 witness: a next URL with an old since and a future until was loaded
\* with one request that has the metric, the since and the token, no until
C21_Witness ==
    /\ loader.pc = "returned"
    /\ loader.op = "load_page_from_url"
    /\ loader.input.url = NextUrlWith(<<"1600000000">>, <<"1700009999">>)
    /\ loader.result = Response(<<PlainRow>>, "")
    /\ loader.requests =
           <<HttpRequest("GET", "/v23.0/177057932317550/insights",
                         <<KV("metric", Str("page_fans")), KV("since", Str("1600000000")),
                           KV("access_token", Str("token"))>>)>>

(***************************************************************************)
(* Base rows of an action-breakdown query                                  *)
(***************************************************************************)

\* the source row has a field of action statistics
HasActionStats(src) ==
    \E j \in DOMAIN src : src[j].k \in ADS_ACTION_STATS_ROW /\ IsList(src[j].v)

\* the top-level source rows of the call: those of the response and those of
\* the later pages parse_data fetched
TopLevelSources ==
    {SourceRows[i] : i \in DOMAIN SourceRows}
    \cup UNION {{Get(parser.self.page_loader[parser.out.fetched[f]].d, "data", Null).l[i] :
                     i \in DOMAIN Get(parser.self.page_loader[parser.out.fetched[f]].d,
                                      "data", Null).l}
                : f \in DOMAIN parser.out.fetched}

\* the rows at the graph node of the call that are not action rows
NonActionRows ==
    {row \in AllRows(parser.out.result) :
        ~Has(row, "ads_action_name") /\ Col(row, "fb_graph_node") = Str(parser.fb_node)}

\* C22: for an action-breakdown query a source row with action-statistics
\* fields yields no base row: every row at the graph node of the call that is
\* not an action row carrying ads_action_name is the row of a source row
\* without action statistics; and a source row without action statistics that
\* has a meaningful field still yields its base row (or its values rows).
C22_BreakdownSuppressesBaseRow ==
    (parser.pc = "done" /\ IsActionBreakdown(parser.self)) =>
        /\ \A row \in NonActionRows :
              \E src \in TopLevelSources :
                  /\ ~HasActionStats(src.d)
                  /\ \A j \in ScalarFields(src.d) : Col(row, src.d[j].k) = src.d[j].v
        /\ \A i \in DOMAIN SourceRows :
              (/\ ~HasActionStats(SourceRows[i].d)
               /\ \E j \in ScalarFields(SourceRows[i].d) :
                      /\ SourceRows[i].d[j].k \notin BasicIdentifiers
                      /\ SourceRows[i].d[j].v.s # ""
               /\ \/ ~Has(SourceRows[i].d, "values")
                  \/ GoodEntries(Get(SourceRows[i].d, "values", Null)) # <<>>)
              => BaseRowsOf(SourceRows[i].d) # {}

\* C22 witness: an action_type breakdown on an ads row with two actions and a
\* plain row gave the two action rows and the plain row's base row only
C22_Witness ==
    /\ parser.pc = "done"
    /\ IsActionBreakdown(parser.self)
    /\ SourceRows = <<ActionsRow, PlainRow>>
    /\ Cardinality({row \in AllRows(parser.out.result) : Has(row, "ads_action_name")}) = 2
    /\ Cardinality(NonActionRows) = 1
    /\ BaseRowsOf(PlainRow.d) = NonActionRows

(***************************************************************************)
(* The page-token cache, the second load attempt and the batch request     *)
(***************************************************************************)

\* C23: the page tokens are computed at most once in a run: a step that
\* requests me/accounts starts with an empty cache and leaves it filled, also
\* when the request fails, and a filled cache is never changed afterwards,
\* not by a load that falls back to the user token either.
C23_PageTokensComputedOnce ==
    [][/\ "me/accounts" \in RequestKinds' =>
              client.page_tokens = Null /\ client'.page_tokens # Null
       /\ client.page_tokens # Null => client'.page_tokens = client.page_tokens]_vars

\* C23 witness: in the second page-token query of a run the load of account
\* a1 with its page token failed and was made again with the user token; the
\* cache still holds the page token of a1
C23_Witness ==
    /\ client.si = 2
    /\ client.step.op = "load"
    /\ Len(client.step.requests) >= 2
    /\ client.step.requests[1] = Request("load", "a1", "page_token_p1")
    /\ client.step.requests[2] = Request("load", "a1", UserToken)
    /\ client.page_tokens # Null
    /\ Get(client.page_tokens.d, "a1", "") = "page_token_p1"

\* the load requests of the last step
LoadRequests == SelectSeq(client.step.requests, LAMBDA r : r.kind = "load")

\* C24: a round of the per-account loop makes one load attempt or two. The
\* second is made exactly when the query requires a page token and the first
\* failed with an error whose text starts with "400"; it uses the user
\* token. When the last attempt failed the account is skipped: nothing is
\* parsed or yielded, and the loop is at the next account or past the query.
C24_AtMostOneRetry ==
    client.step.op = "load" =>
        LET attempts == client.load.attempts
            first == attempts[1].answer
            last == attempts[Len(attempts)].answer
        IN  /\ Len(attempts) \in {1, 2}
            /\ Len(LoadRequests) = Len(attempts)
            /\ \A n \in DOMAIN attempts : LoadRequests[n].token = attempts[n].token
            /\ Len(attempts) = 2 <=>
                  /\ _request_require_page_token(client.load.row_config)
                  /\ IsRaise(first)
                  /\ Len(first.e) >= 3
                  /\ SubSeq(first.e, 1, 3) = "400"
            /\ Len(attempts) = 2 => attempts[2].token = UserToken
            /\ IsRaise(last) =>
                  /\ client.step.requests = LoadRequests
                  /\ client.step.yielded = <<>>
                  /\ \/ client.pc = "sync" /\ client.si = client.load.si
                        /\ client.phase = "accounts" /\ client.ti = client.load.ti + 1
                     \/ client.pc = "sync" /\ client.si = client.load.si + 1
                     \/ client.pc = "done" /\ client.si = client.load.si + 1

\* C24 witness: the load of the first account with its page token failed
\* with a 400, the load with the user token failed as well, and the loop is
\* at the second account
C24_Witness ==
    /\ client.step.op = "load"
    /\ Len(client.load.attempts) = 2
    /\ client.load.attempts[1] =
           Attempt("page_token_p1", Exception("HTTPError", "400 Client Error: Bad Request"))
    /\ client.load.attempts[2] =
           Attempt(UserToken, Exception("HTTPError", "500 Server Error"))
    /\ client.pc = "sync"
    /\ client.phase = "accounts"
    /\ client.ti = 2

\* the last step of the run made the batch request of a query
BatchStep == client.step.op = "batch" /\ client.batch.si > 0

\* the query of the last batch request is over, and the run goes on with the
\* queries after it
QueryLeft ==
    /\ client.si = client.batch.si + 1
    /\ IF client.si > Len(client.sync_queries) THEN client.pc = "done"
       ELSE client.pc = "sync" /\ client.phase \in {"batch", "tokens"}

\* the per-account strategy is about to run for the query of the last batch
\* request
PerAccountNext ==
    /\ client.pc = "sync"
    /\ client.si = client.batch.si
    /\ client.phase = "tokens"

\* C25: when the batch request of a query fails with an HTTP error whose body
\* contains "Page Access Token", the per-account strategy is run for the
\* query; on any other HTTP error nothing more is requested and nothing is
\* yielded for the query, and the run goes on with the remaining queries.
C25_BatchHttpFailure ==
    (BatchStep /\ IsRaise(client.batch.response)) =>
        /\ client.step.requests = <<Request("batch", client.sync_queries[client.batch.si].name,
                                            UserToken)>>
        /\ client.step.yielded = <<>>
        /\ IF \E i \in 1..(Len(client.batch.response.response.text) - 16) :
                  SubSeq(client.batch.response.response.text, i, i + 16) = "Page Access Token"
           THEN PerAccountNext
           ELSE QueryLeft

\* C25 witness: the batch request of the first of two queries failed with a
\* 500, and the run is at the second query
C25_Witness ==
    /\ BatchStep
    /\ client.batch.si = 1
    /\ client.batch.response =
           HTTPError("500 Server Error: Internal Server Error for url",
                     ErrorResponse(Null, "Internal Server Error"))
    /\ client.step.yielded = <<>>
    /\ client.pc = "sync"
    /\ client.si = 2
    /\ Len(client.sync_queries) = 2

\* C30: a sync query makes at most one batch request. After a batch response
\* that is a non-empty object no per-account load is made for the query;
\* after one that is empty or not an object the query is not over: the
\* per-account strategy is run for it.
C30_OneBatchThenPerAccount ==
    /\ client.batch.count <= 1
    /\ Len(SelectSeq(client.step.requests, LAMBDA r : r.kind = "batch")) <= 1
    /\ (client.batch.si > 0 /\ client.load.si = client.batch.si) =>
           \/ IsRaise(client.batch.response)
           \/ client.batch.response.t # "dict"
           \/ client.batch.response = Dict(<<>>)
    /\ (/\ BatchStep
        /\ ~IsRaise(client.batch.response)
        /\ \/ client.batch.response.t # "dict"
           \/ client.batch.response = Dict(<<>>))
       => PerAccountNext

\* C30 witness: the batch request of a query gave an empty object and the
\* first account of the query was then loaded
C30_Witness ==
    /\ client.step.op = "load"
    /\ client.batch.response = Dict(<<>>)
    /\ client.batch.count = 1
    /\ client.load.si = client.batch.si
    /\ client.load.ti = 1

(***************************************************************************)
(* Failures of async jobs                                                  *)
(***************************************************************************)

\* the last step polled a job
PollStep == client.step.op = "poll" /\ client.polled.ji > 0

\* C26: a failure while starting, polling or flattening one async job skips
\* that job only. Every account of every async query gets its start request
\* and every started job is polled before the run leaves the async jobs; a
\* job polled with a result whose pages load yields its mapping; and after
\* the last job, whatever happened to it, the sync queries are gone through.
C26_AsyncFailureIsolated ==
    /\ client.pc \in {"poll", "sync", "done", "crashed"} => client.ui > Len(client.units)
    /\ client.pc \in {"sync", "done", "crashed"} => client.ji > Len(client.jobs)
    /\ client.step.op = "start" => client.pc \in {"start_jobs", "poll", "sync", "done"}
    /\ PollStep =>
          /\ client.ji = client.polled.ji + 1
          /\ IF client.ji <= Len(client.jobs) THEN client.pc = "poll"
             ELSE IF client.sync_queries = <<>> THEN client.pc = "done"
             ELSE client.pc = "sync" /\ client.si = 1
          /\ (/\ ~IsRaise(client.polled.page_data)
              /\ Truthy(Get(client.polled.page_data.d, "data", Null))
              /\ \/ NextUrl(client.polled.page_data) = Null
                 \/ client.polled.pages = LastPages)
             => /\ Len(client.step.yielded) = 1
                /\ client.step.yielded[1].page_id
                       = client.jobs[client.polled.ji].v.page_id

\* C26 witness: of two started jobs the first failed when it was polled;
\* nothing was yielded for it and the second job is polled next
C26_Witness ==
    /\ PollStep
    /\ Len(client.jobs) = 2
    /\ client.polled.ji = 1
    /\ client.polled.page_data =
           Exception("UserException", "Async insights job failed: Job Failed")
    /\ client.step.yielded = <<>>
    /\ client.pc = "poll"
    /\ client.ji = 2

(***************************************************************************)
(* Request parameters of a sync load (page_loader.py 126-225)              *)
(***************************************************************************)

MAX_INSTAGRAM_INSIGHTS_DAYS == 30

IG_INSIGHTS_METRICS == {"follower_count", "reach", "impressions", "profile_views"}

\* the place of the first sep in s, 0 when there is none
IndexOf(s, sep) ==
    LET at == {i \in 1..(Len(s) - Len(sep) + 1) : SubSeq(s, i, i + Len(sep) - 1) = sep}
    IN  IF at = {} THEN 0 ELSE CHOOSE i \in at : \A j \in at : i <= j

\* s.split(sep)[0]
SplitHead(s, sep) == IF IndexOf(s, sep) = 0 THEN s ELSE SubSeq(s, 1, IndexOf(s, sep) - 1)

\* s.split(sep, 1)[1], for an s that has sep
AfterFirst(s, sep) == SubSeq(s, IndexOf(s, sep) + Len(sep), Len(s))

\* s.split(sep)[1], for an s that has sep
SplitSecond(s, sep) == SplitHead(AfterFirst(s, sep), sep)

\* fields.split(".metric(")[1].split(")")[0], likewise for the other directives
Directive(fields, name) == SplitHead(SplitSecond(fields, "." \o name \o "("), ")")

RECURSIVE Without(_, _)
\* s.replace(ch, "") for one character
Without(s, ch) ==
    IF s = "" THEN ""
    ELSE (IF SubSeq(s, 1, 1) = ch THEN "" ELSE SubSeq(s, 1, 1))
             \o Without(SubSeq(s, 2, Len(s)), ch)

\* the dates of the run (2023-11-14): what get_past_date(expr) gives as
\* %Y-%m-%d, and the day it is, counted from today
PastDates ==
    {[expr |-> "60 days ago", date |-> "2023-09-15", day |-> 0 - 60],
     [expr |-> "7 days ago", date |-> "2023-11-07", day |-> 0 - 7],
     [expr |-> "2 days ago", date |-> "2023-11-12", day |-> 0 - 2],
     [expr |-> "today", date |-> "2023-11-14", day |-> 0]}

\* get_past_date(expr).strftime("%Y-%m-%d")
get_past_date(expr) == (CHOOSE d \in PastDates : d.expr = expr).date

\* datetime.strptime(text, "%Y-%m-%d") as a day, None for ValueError
DayOf(text) ==
    IF \E d \in PastDates : d.date = text
    THEN Num((CHOOSE d \in PastDates : d.date = text).day)
    ELSE Null

\* query_config as the loader reads it: the fields of QueryConfig that make
\* the request; limit is None or a string, parameters "" stands for None
LoaderQuery(path, fields, limit, since, until, parameters) ==
    [path |-> path, fields |-> fields, limit |-> limit, since |-> since, until |-> until,
     parameters |-> parameters]

\* the UserException of the 30-day validation, None when it passes
_validate_ig_insights_date_range(params, fields) ==
    IF ~\E metric \in IG_INSIGHTS_METRICS : Contains(fields, metric) THEN Null
    ELSE IF ~Truthy(Get(params, "since", Null)) THEN Null
    ELSE IF DayOf(Get(params, "since", Null).s) = Null THEN Null
    ELSE IF Truthy(Get(params, "until", Null)) /\ DayOf(Get(params, "until", Null).s) = Null
    THEN Null
    ELSE IF (IF Truthy(Get(params, "until", Null))
             THEN DayOf(Get(params, "until", Null).s).n ELSE 0)
            - DayOf(Get(params, "since", Null).s).n > MAX_INSTAGRAM_INSIGHTS_DAYS
    THEN Exception("UserException", "Instagram insights queries cannot exceed 30 days")
    ELSE Null

\* if query_config.since.strip(): params["since"] = get_past_date(...), and until
WithDate(params, key, expr) ==
    IF Strip(expr) # "" THEN Put(params, key, Str(get_past_date(expr))) ELSE params

\* the metric directive of fields: the names, stripped and joined by ","
WithMetric(params, fields) ==
    IF ~Contains(fields, ".metric(") THEN params
    ELSE LET parts == Split(Without(Directive(fields, "metric"), "\n"), ",")
             metrics == SelectSeq([i \in DOMAIN parts |-> Strip(parts[i])],
                                  LAMBDA m : m # "")
         IN  IF metrics # <<>> THEN Put(params, "metric", Str(JoinWith(",", metrics)))
             ELSE params

WithPeriod(params, fields) ==
    IF Contains(fields, ".period(")
    THEN Put(params, "period", Str(Strip(Directive(fields, "period"))))
    ELSE params

\* the since and until directives of fields
WithInlineDate(params, fields, key) ==
    IF Contains(fields, "." \o key \o "(")
    THEN Put(params, key, Str(get_past_date(Strip(Directive(fields, key)))))
    ELSE params

\* params = {k: v for k, v in params.items() if v is not None}
NotNone(params) == SelectSeq(params, LAMBDA item : item.v # Null)

\* params.update({k.strip(): v.strip() for k, v in pairs}), pairs being the
\* pieces of extras between "&" that have "=", cut at their first "="
WithExtras(params, extras) ==
    FoldLeft(LAMBDA d, p : IF Contains(p, "=")
                           THEN Put(d, Strip(SplitHead(p, "=")), Str(Strip(AfterFirst(p, "="))))
                           ELSE d,
             params, IF extras = "" THEN <<>> ELSE Split(extras, "&"))

\* the insights branch of _build_params after the directives are read
AfterValidation(params, query_config) ==
    IF _validate_ig_insights_date_range(params, query_config.fields) # Null
    THEN _validate_ig_insights_date_range(params, query_config.fields)
    ELSE Dict(WithExtras(NotNone(params), query_config.parameters))

\* PageLoader._build_params: the parameters, or the UserException of the
\* validation
_build_params(query_config) ==
    IF query_config.path = "" /\ StartsWith(query_config.fields, "insights")
    THEN AfterValidation(
             WithInlineDate(
                 WithInlineDate(
                     WithPeriod(
                         WithMetric(
                             WithDate(WithDate(<<KV("limit", query_config.limit)>>,
                                               "since", query_config.since),
                                      "until", query_config.until),
                             query_config.fields),
                         query_config.fields),
                     query_config.fields, "since"),
                 query_config.fields, "until"),
             query_config)
    ELSE Dict(WithExtras(
                  NotNone((IF query_config.fields # ""
                           THEN Put(WithDate(WithDate(<<KV("limit", query_config.limit)>>,
                                                      "since", query_config.since),
                                             "until", query_config.until),
                                    "fields", Str(query_config.fields))
                           ELSE WithDate(WithDate(<<KV("limit", query_config.limit)>>,
                                                  "since", query_config.since),
                                         "until", query_config.until))),
                  query_config.parameters))

\* PageLoader._build_endpoint_path
_build_endpoint_path(query_config, page_id) ==
    "/" \o JoinWith("/", <<"v23.0", page_id>>
                         \o (IF query_config.path = ""
                                /\ StartsWith(query_config.fields, "insights")
                             THEN <<"insights">>
                             ELSE IF query_config.path # "" THEN <<query_config.path>>
                             ELSE <<>>))

\* base_params = self._build_params(query_config); base_params.update(params or {})
BaseParams(build, params) == IF IsRaise(build) THEN build ELSE Dict(Update(build.d, params))

\* _load_regular_page(query_config, page_id, params) from its arguments
LoadRegular(query_config, page_id, params, http) ==
    _load_regular_page(_build_endpoint_path(query_config, page_id),
                       BaseParams(_build_params(query_config), params), http)

\* the queries of sync loads: a feed, a node, page insights with directives,
\* Instagram insights over 60 days
LoaderFields ==
    {"id,name", "",
     "insights.metric(page_fans, page_views).period(day).since(7 days ago).until(today)",
     "insights.metric(reach).since(60 days ago)"}

\* extra parameters: none, one that names limit, a date window, names of
\* fields, metric and period with blanks, the token, a piece without "=" and
\* a key given twice
LoaderExtras ==
    {"", "limit=100", "since=2020-01-01&until=2020-02-01",
     "fields=id&metric=page_impressions& period = week", "access_token=other_token",
     "summary&limit=5&limit=7"}

LoaderQueries ==
    {LoaderQuery(path, fields, limit, since, until, extras) :
         path \in {"", "feed"}, fields \in LoaderFields, limit \in {Str("25"), Null},
         since \in {"", "60 days ago"}, until \in {"", "today"}, extras \in LoaderExtras}

\* params of load_page: the token (client.py 263), or None
CallerParams == {<<KV("access_token", Str("token"))>>, <<>>}

ParamsInit ==
    /\ loader \in {[pc |-> "call", op |-> "load_regular_page", query_config |-> q,
                    page_id |-> PageId, params |-> p, http |-> h,
                    requests |-> <<>>, result |-> Null] :
                       q \in LoaderQueries, p \in CallerParams,
                       h \in {Response(<<PlainRow>>, ""),
                              GraphError(190, 460, "Error validating access token", "")}}
    /\ names = [pc |-> "off"]
    /\ parser = [pc |-> "off"]
    /\ client = [pc |-> "off"]

\* page_loader.load_page(query, page_id, params) of a sync query
LoadRegularPage ==
    /\ loader.pc = "call"
    /\ loader.op = "load_regular_page"
    /\ loader' = Finish(LoadRegular(loader.query_config, loader.page_id, loader.params,
                                    loader.http))
    /\ UNCHANGED <<names, parser, client>>

SpecParams == ParamsInit /\ [][LoadRegularPage]_vars

\* the pieces of the extra parameters of the call
ExtraPieces ==
    IF loader.query_config.parameters = "" THEN <<>>
    ELSE Split(loader.query_config.parameters, "&")

\* the key=value pairs the extra parameters give, the last one of each key
ExtraPairs ==
    {[k |-> Strip(SplitHead(ExtraPieces[i], "=")), v |-> Strip(AfterFirst(ExtraPieces[i], "="))] :
        i \in {i \in DOMAIN ExtraPieces :
                  /\ Contains(ExtraPieces[i], "=")
                  /\ \A j \in DOMAIN ExtraPieces :
                        (j > i /\ Contains(ExtraPieces[j], "="))
                        => Strip(SplitHead(ExtraPieces[j], "="))
                               # Strip(SplitHead(ExtraPieces[i], "="))}}

\* C27: in the GET request of a sync load every key of the query's extra
\* parameters is sent with the value the extra parameters give it, whatever
\* limit, since, until, fields, the inline insights directives or the
\* parameters of the caller say for that key.
C27_ExtraParametersWin ==
    (LoaderDone /\ loader.op = "load_regular_page") =>
        \A r \in DOMAIN loader.requests :
            \A pair \in ExtraPairs :
                Get(loader.requests[r].params, pair.k, Null) = Str(pair.v)

(***************************************************************************)
(* Component._get_primary_key (component.py)                               *)
(***************************************************************************)

PRIMARY_KEY_CANDIDATES ==
    <<"id", "parent_id", "key1", "key2", "end_time", "account_id", "campaign_id",
      "date_start", "date_stop", "ads_action_name", "action_type", "action_reaction",
      "ad_id", "publisher_platform", "ads_action_name", "adset_id">>

\* available_columns: the union of the keys of the rows
AvailableColumns(rows) == UNION {{rows[r][i].k : i \in DOMAIN rows[r]} : r \in DOMAIN rows}

\* Component._get_primary_key
_get_primary_key(rows) ==
    IF rows = <<>> THEN <<>>
    ELSE LET primary_key == SelectSeq(PRIMARY_KEY_CANDIDATES,
                                      LAMBDA col : col \in AvailableColumns(rows))
         IN  IF primary_key # <<>> THEN primary_key
             ELSE IF "id" \in AvailableColumns(rows) THEN <<"id">>
             ELSE <<>>

MaxBatch == 2

\* the columns of the rows of a batch: identifiers, columns of action rows
\* and a column that is no key candidate
BatchColumns == <<"id", "date_start", "ads_action_name", "adset_id", "message">>

\* the rows of a table of one mapping: every row has some of the columns
BatchRows ==
    {SelectSeq([i \in DOMAIN BatchColumns |-> KV(BatchColumns[i], Str("x"))],
               LAMBDA item : item.k \in columns) :
         columns \in (SUBSET {BatchColumns[i] : i \in DOMAIN BatchColumns}) \ {{}}}

\* primary_key = self._get_primary_key(rows_list), for rows_list that is not
\* empty (component.py 101-103)
KeysInit ==
    /\ parser \in {[pc |-> "call", op |-> "primary_key", rows |-> rows, primary_key |-> <<>>] :
                       rows \in SeqsUpTo(BatchRows, MaxBatch) \ {<<>>}}
    /\ names = [pc |-> "off"]
    /\ client = [pc |-> "off"]
    /\ loader = [pc |-> "off"]

GetPrimaryKey ==
    /\ parser.pc = "call"
    /\ parser.op = "primary_key"
    /\ parser' = [parser EXCEPT !.pc = "done", !.primary_key = _get_primary_key(parser.rows)]
    /\ UNCHANGED <<names, client, loader>>

SpecKeys == KeysInit /\ [][GetPrimaryKey]_vars

\* the columns of the priority list, and the first place of a column in it
PriorityColumns == {PRIMARY_KEY_CANDIDATES[i] : i \in DOMAIN PRIMARY_KEY_CANDIDATES}

Priority(col) ==
    CHOOSE i \in DOMAIN PRIMARY_KEY_CANDIDATES :
        /\ PRIMARY_KEY_CANDIDATES[i] = col
        /\ \A j \in DOMAIN PRIMARY_KEY_CANDIDATES : PRIMARY_KEY_CANDIDATES[j] = col => i <= j

\* C28: the primary key of a batch of rows is the priority list intersected
\* with the columns present in at least one row: those columns in priority
\* order, each once, none that is absent from the batch, and empty only when
\* no priority column is present.
C28_PrimaryKeyIsIntersection ==
    (parser.pc = "done" /\ parser.op = "primary_key") =>
        LET primary_key == parser.primary_key
            present == PriorityColumns \cap AvailableColumns(parser.rows)
        IN  /\ {primary_key[i] : i \in DOMAIN primary_key} = present
            /\ \A i, j \in DOMAIN primary_key : primary_key[i] = primary_key[j] => i = j
            /\ \A i, j \in DOMAIN primary_key :
                  i < j => Priority(primary_key[i]) < Priority(primary_key[j])
            /\ primary_key = <<>> <=> present = {}

(***************************************************************************)
(* The timeout of poll_async_job                                           *)
(***************************************************************************)

\* the call ended with the failure "did not complete within timeout"
TimedOut ==
    /\ loader.pc = "raised"
    /\ loader.result = Exception("UserException",
                                 "Async insights job did not complete within timeout")

\* C29: poll_async_job raises the timeout failure only after 60 status
\* requests, never after fewer.
C29_TimeoutOnlyAfterSixty == TimedOut => loader.poll.status_requests = 60

====
